---- MODULE Spec2Model ----
(***************************************************************************)
(* BidiChecker: the DOM walker (bidichecker.DomWalker), the chunk          *)
(* aggregator (bidichecker.DirChunkWalker, bidichecker.DirChunk) and the   *)
(* detectors (bidichecker.UndeclaredTextDetector and                       *)
(* bidichecker.SpilloverDetector) reporting to the bidichecker.ErrorCollector,*)
(* run over one document by Scanner.runDetectors_ and over the documents   *)
(* of its frames by Scanner.scanDomRecursively_.                           *)
(*                                                                         *)
(* A DOM is a sequence of nodes in document (preorder) order; each node    *)
(* carries its depth below the root, so that parentNode, firstChild and    *)
(* nextSibling are functions of the sequence.  Node 0 stands for null.     *)
(* A string is a sequence of characters, a character a one-token string.   *)
(***************************************************************************)
EXTENDS Integers, Sequences, FiniteSets, TLC

\* Largest number of nodes of a scanned DOM subtree.
MaxNodes == 4

\* Largest length of the enumerated texts of the undeclared-text documents.
MaxTextLen == 3

\* the deepest nesting of the sub-filters of a bare filter
MaxDepth == 2

\* the most Error objects the caller makes
MaxErrors == 2

\* the most calls of highlightOnPage and unhighlightOnPage on an area
MaxCalls == 4

----------------------------------------------------------------------------
(* DOM nodes *)

\* the attributes the UndeclaredFieldDetector reads, for an element that
\* has none of them
NoAttributes ==
  [title |-> <<>>, type |-> "", value |-> <<>>, alt |-> <<>>,
   styleDirection |-> ""]

Element(nodeName, display, visibility, dir, rtl) ==
  [nodeType |-> "ELEMENT", nodeName |-> nodeName, display |-> display,
   visibility |-> visibility, dir |-> dir, rtl |-> rtl, data |-> <<>>,
   depth |-> 0, attributes |-> NoAttributes]

TextNode(data) ==
  [nodeType |-> "TEXT", nodeName |-> "#text", display |-> "",
   visibility |-> "", dir |-> "", rtl |-> FALSE, data |-> data, depth |-> 0,
   attributes |-> NoAttributes]

CommentNode ==
  [nodeType |-> "COMMENT", nodeName |-> "#comment", display |-> "",
   visibility |-> "", dir |-> "", rtl |-> FALSE, data |-> <<>>, depth |-> 0,
   attributes |-> NoAttributes]

RECURSIVE Shapes(_)
\* The shapes of a document of n nodes: the depth of each node in document
\* order.  The root has depth 0; a node is a child of the node before it, or
\* a sibling of that node or of one of its ancestors.
Shapes(n) ==
  IF n = 1 THEN {<<0>>}
  ELSE UNION {{Append(s, dep) : dep \in 1 .. (s[n - 1] + 1)} : s \in Shapes(n - 1)}

\* the document of the given shape with the given nodes
DomOf(shape, root, kinds) ==
  [i \in 1 .. Len(shape) |->
     IF i = 1 THEN root ELSE [kinds[i] EXCEPT !.depth = shape[i]]]

\* only elements have child nodes
WellFormed(d) ==
  \A i \in 1 .. (Len(d) - 1) :
    d[i + 1].depth > d[i].depth => d[i].nodeType = "ELEMENT"

VARIABLES
  opt_filtersJson,  \* the opt_filtersJson of checkPageToJson, as
                    \* goog.json.parse reads it
  page,             \* the documents of the page: page[1] is the one scan is
                    \* called on, the others are content documents of frames
  doc_,             \* the document runDetectors_ runs on: index into page
  dom,              \* page[doc_].dom: the nodes under the scanned root element
  nodeIter_,        \* DomWalker.nodeIter_: the goog.dom.TagIterator
  node_,            \* DomWalker.node_
  isRtlStack_,      \* DomWalker.isRtlStack_
  isDeclaredStack_, \* DomWalker.isDeclaredStack_
  blockStack_,      \* DomWalker.blockStack_
  frames_,          \* DomWalker.frames_
  pc,               \* position of the scan: DomWalker.go is "walking" or
                    \* "done", or has "thrown"; the scanner is "looping"
                    \* over frames, has "returned" or has "failed";
                    \* checkPageToJson is "reading" the filters or has
                    \* "raised" the exception of a filter
  events,           \* the events dispatched by the DomWalker, in order
  chunks,           \* the DirChunk objects allocated so far (1 = NullDirChunk)
  chunk_,           \* DirChunkWalker.chunk_: index into chunks
  chunkEvents,      \* the events dispatched by the DirChunkWalker, in order
  candidate_,       \* SpilloverDetector.candidate_ (0 = null)
  textNodes_,       \* SpilloverDetector.textNodes_
  errors_,          \* ErrorCollector.errors_
  filters_,         \* ErrorCollector.filters_
  throwOnError_,    \* ErrorCollector.throwOnError_
  addErrorLog,      \* the calls of ErrorCollector.addError, in order
  revision_,        \* UndeclaredTextDetector.revision_
  expectedDir_,     \* the expectedDir runDetectors_ was called with
  listeners_,       \* the listeners goog.events holds: those subscribed
  frameStack_,      \* FrameStack.frames_
  frameEvents,      \* the events dispatched by the FrameStack, in order
  scanStack,        \* the activations of scanDomRecursively_ in their loop
  nextErrorId_,     \* bidichecker.Error.nextErrorId_
  highlightableAreas_, \* bidichecker.Error.highlightableAreas_
  errorObjects,     \* the Error objects the caller has made with the four
                    \* argument constructor, in the order it made them
  errorsJson,       \* the JSON text of errors the caller holds
  rebuilt,          \* what runGuiFromJson made of errorsJson
  area,             \* the highlightable area of an error that the caller
                    \* holds: a HighlightableElement or a HighlightableText
  elementStyle,     \* the background colour of the element of the area: of
                    \* its style attribute and of the style sheets
  pageNodes,        \* the child nodes of the parent of the text nodes
  loaded,           \* elementStyle and pageNodes as the page was loaded
  calls,            \* the calls of highlightOnPage and unhighlightOnPage
  regLastIndex,     \* the lastIndex property of the global regular
                    \* expressions of bidichecker.utils
  finderCall        \* the latest call of a substring finder by the caller

vars == <<opt_filtersJson, page, doc_, dom, nodeIter_, node_, isRtlStack_,
          isDeclaredStack_, blockStack_, frames_, pc, events, chunks, chunk_, chunkEvents,
          candidate_, textNodes_, errors_, filters_, throwOnError_,
          addErrorLog, revision_, expectedDir_, listeners_, frameStack_,
          frameEvents, scanStack, nextErrorId_, highlightableAreas_,
          errorObjects, errorsJson, rebuilt, area, elementStyle, pageNodes,
          loaded, calls, regLastIndex, finderCall>>

\* the state of the bidichecker.Error class and of its objects
errorVars == <<nextErrorId_, highlightableAreas_, errorObjects, errorsJson,
               rebuilt>>

\* a highlightable area and the part of the page that it changes
highlightVars == <<area, elementStyle, pageNodes, loaded, calls>>

\* the global regular expressions of bidichecker.utils and their caller
utilsVars == <<regLastIndex, finderCall>>

----------------------------------------------------------------------------
(* DOM navigation *)

Nodes == 1 .. Len(dom)

\* parentNode within the nodes of a document
parentNodeIn(tree, n) ==
  IF tree[n].depth = 0 THEN 0
  ELSE CHOOSE p \in 1 .. (n - 1) :
         /\ tree[p].depth = tree[n].depth - 1
         /\ \A q \in (p + 1) .. (n - 1) : tree[q].depth >= tree[n].depth

parentNode(n) == parentNodeIn(dom, n)

firstChild(n) ==
  IF n < Len(dom) /\ dom[n + 1].depth = dom[n].depth + 1 THEN n + 1 ELSE 0

nextSibling(n) ==
  LET later == {m \in (n + 1) .. Len(dom) :
                  /\ dom[m].depth = dom[n].depth
                  /\ \A q \in (n + 1) .. m : dom[q].depth >= dom[n].depth}
  IN  IF later = {} THEN 0 ELSE CHOOSE m \in later : \A o \in later : m <= o

childNodes(n) == {c \in Nodes : dom[c].depth > 0 /\ parentNode(c) = n}

RECURSIVE IsAncestor(_, _)
\* a is a proper ancestor of n
IsAncestor(a, n) ==
  /\ dom[n].depth > 0
  /\ (parentNode(n) = a \/ IsAncestor(a, parentNode(n)))

----------------------------------------------------------------------------
(* bidichecker.utils: display tests *)

BLOCK_TAG_NAMES_ == {"BODY", "DIV", "P", "TABLE"}

INLINE_DISPLAY_TYPES_ == {"inline", "inline-block", "inline-table"}

isBlockTag_(element) == dom[element].nodeName \in BLOCK_TAG_NAMES_

getDisplayStyle(element) == dom[element].display

getVisibilityStyle(element) == dom[element].visibility

isBlockElement(element) ==
  LET display == getDisplayStyle(element)
  IN  IF display # "" THEN display \notin INLINE_DISPLAY_TYPES_
      ELSE isBlockTag_(element)

\* isDisplayable without the test of the visibility style
isDisplayable_noVisibility(node) ==
  IF dom[node].nodeType = "ELEMENT"
  THEN IF dom[node].nodeName \in {"SCRIPT", "STYLE", "NOSCRIPT"} THEN FALSE
       ELSE getDisplayStyle(node) # "none"
  ELSE TRUE

isDisplayable(node) ==
  IF dom[node].nodeType = "ELEMENT"
  THEN IF dom[node].nodeName \in {"SCRIPT", "STYLE", "NOSCRIPT"} THEN FALSE
       ELSE IF getDisplayStyle(node) = "none" THEN FALSE
       ELSE getVisibilityStyle(node) \notin {"hidden", "collapse"}
  ELSE TRUE

\* goog.style.isRightToLeft: the computed direction of the element is rtl
isRightToLeft(element) == dom[element].rtl

----------------------------------------------------------------------------
(* goog.dom.TagIterator over the subtree of the root, constrained to it *)

\* goog.dom.TagWalkType as a number: the change of depth at a position
TagWalkType(tagType) ==
  IF tagType = "START_TAG" THEN 1 ELSE IF tagType = "END_TAG" THEN 0 - 1 ELSE 0

NewTagIterator(root) ==
  [node |-> root, tagType |-> "START_TAG", depth |-> TagWalkType("START_TAG"),
   started |-> FALSE, stop |-> FALSE]

setPosition(it, node, tagType) == [it EXCEPT !.node = node, !.tagType = tagType]

defaultTagType(node) ==
  IF dom[node].nodeType = "ELEMENT" THEN "START_TAG" ELSE "OTHER"

\* TagIterator.next() that throws StopIteration after the last child of an
\* element instead of going on to the end tag of the element
IterNext_stopAtLastChild(it) ==
  IF ~it.started THEN [it EXCEPT !.started = TRUE]
  ELSE IF it.node = 0 \/ it.depth = 0 THEN [it EXCEPT !.stop = TRUE]
  ELSE IF it.tagType = "START_TAG"
  THEN IF firstChild(it.node) # 0
       THEN [setPosition(it, firstChild(it.node),
                         defaultTagType(firstChild(it.node)))
               EXCEPT !.depth = it.depth
                        + TagWalkType(defaultTagType(firstChild(it.node)))]
       ELSE [setPosition(it, it.node, "END_TAG")
               EXCEPT !.depth = it.depth + TagWalkType("END_TAG")]
  ELSE IF nextSibling(it.node) # 0
  THEN [setPosition(it, nextSibling(it.node),
                    defaultTagType(nextSibling(it.node)))
          EXCEPT !.depth = it.depth
                   + TagWalkType(defaultTagType(nextSibling(it.node)))]
  ELSE [it EXCEPT !.stop = TRUE]

\* TagIterator.next(); stop is set when it throws StopIteration
IterNext(it) ==
  IF ~it.started THEN [it EXCEPT !.started = TRUE]
  ELSE IF it.node = 0 \/ it.depth = 0 THEN [it EXCEPT !.stop = TRUE]
  ELSE LET moved ==
             IF it.tagType = "START_TAG"
             THEN IF firstChild(it.node) # 0
                  THEN setPosition(it, firstChild(it.node),
                                   defaultTagType(firstChild(it.node)))
                  ELSE setPosition(it, it.node, "END_TAG")
             ELSE IF nextSibling(it.node) # 0
                  THEN setPosition(it, nextSibling(it.node),
                                   defaultTagType(nextSibling(it.node)))
                  ELSE setPosition(it, parentNode(it.node), "END_TAG")
       IN  [moved EXCEPT !.depth = it.depth + TagWalkType(moved.tagType)]

\* TagIterator.skipTag()
skipTag(it) ==
  IF it.tagType = "START_TAG"
  THEN [it EXCEPT !.tagType = "END_TAG",
            !.depth = it.depth + TagWalkType("END_TAG")]
  ELSE it

isStartTag(it) == it.tagType = "START_TAG"

isEndTag(it) == it.tagType = "END_TAG"

----------------------------------------------------------------------------
(* bidichecker.utils: character classes and the tests built on them *)

\* strong LTR characters: a Latin letter and the left-to-right mark
ltrChars_ == {"a", "LRM"}

\* strong RTL characters: a Hebrew letter and the right-to-left mark
rtlChars_ == {"alef", "RLM"}

\* the characters matched by \d
digitChars == {"1"}

\* neutral and weak characters that are not whitespace (digits among them)
nonWhiteNeutralChars_ == digitChars \cup {"!"}

\* neutral characters, whitespace included
neutralChars_ == nonWhiteNeutralChars_ \cup {" "}

RECURSIVE Concat(_)
\* Array.join(''): the concatenation of a sequence of strings
Concat(pieces) ==
  IF pieces = <<>> THEN <<>> ELSE Head(pieces) \o Concat(Tail(pieces))

\* initialNumberSubstringReg_ = ^[neutral]*\d : the length of the (greedy)
\* match, 0 when there is none
findNumberAtStart(str) ==
  LET ends == {i \in 1 .. Len(str) :
                 /\ str[i] \in digitChars
                 /\ \A j \in 1 .. (i - 1) : str[j] \in neutralChars_}
  IN  IF ends = {} THEN 0 ELSE CHOOSE i \in ends : \A j \in ends : j <= i

hasDirectionalCharacter(str) ==
  \E i \in 1 .. Len(str) : str[i] \in ltrChars_ \cup rtlChars_

\* the data of all text nodes in the subtree of node, in document order
getTextContents(node) ==
  LET inside == {n \in Nodes : dom[n].nodeType = "TEXT" /\ IsAncestor(node, n)}
      ordered[i \in 0 .. Len(dom)] ==
        IF i = 0 THEN <<>>
        ELSE IF i \in inside THEN ordered[i - 1] \o dom[i].data
        ELSE ordered[i - 1]
  IN  ordered[Len(dom)]

----------------------------------------------------------------------------
(* bidichecker.utils: the substring finders.  A Substring is its text and   *)
(* its 0-based index; a finder that returns null returns NoSubstring.       *)

\* the embedding and override controls \u202A-\u202E, which end every run
bidiControlChars == {"LRE", "RLE", "PDF", "LRO", "RLO"}

Substring(text, index) == [found |-> TRUE, text |-> text, index |-> index]

NoSubstring == [found |-> FALSE, text |-> <<>>, index |-> 0]

\* String.charAt with a 0-based index: the empty string outside the string
charAt(str, index) ==
  IF index >= 0 /\ index < Len(str) THEN str[index + 1] ELSE ""

\* [own](?:[^other\u202A-\u202E]*[own])? matched at position s (from 1),
\* where str[s] is in own: the position of the last character of the match
\* the pattern without its optional group: every match is one character
RunEnd_oneCharacter(str, s, own, other) == s

RunEnd(str, s, own, other) ==
  LET ends == {j \in s .. Len(str) :
                 /\ str[j] \in own
                 /\ \A q \in (s + 1) .. (j - 1) :
                      str[q] \notin other \cup bidiControlChars}
  IN  CHOOSE j \in ends : \A k \in ends : k <= j

RECURSIVE RunsFrom(_, _, _, _)
\* the loop of exec calls of a global run pattern, from lastIndex on
RunsFrom(str, lastIndex, own, other) ==
  LET starts == {s \in (lastIndex + 1) .. Len(str) : str[s] \in own}
  IN  IF starts = {} THEN <<>>
      ELSE LET s == CHOOSE t \in starts : \A u \in starts : t <= u
               e == RunEnd(str, s, own, other)
           IN  <<Substring(SubSeq(str, s, e), s - 1)>>
                 \o RunsFrom(str, e, own, other)

findRtlSubstrings(str) == RunsFrom(str, 0, rtlChars_, ltrChars_)

findLtrSubstrings(str) ==
  LET isFakeRtl(match) ==
        /\ charAt(str, match.index - 1) = "RLO"
        /\ charAt(str, match.index + Len(match.text)) = "PDF"
  IN  SelectSeq(RunsFrom(str, 0, ltrChars_, rtlChars_),
                LAMBDA match : ~isFakeRtl(match))

\* the length of the longest suffix of neutral characters
FinalNeutralLength(str) ==
  LET lens == {n \in 0 .. Len(str) :
                 \A q \in (Len(str) - n + 1) .. Len(str) : str[q] \in neutralChars_}
  IN  CHOOSE n \in lens : \A m \in lens : m <= n

RECURSIVE FakeRtlEnd(_, _)
\* (?:\u202E[ltr](?:[^rtl\u202A-\u202E]*[ltr])?\u202C[neutral]*)+ matched at
\* position s (from 1): the position of the last character, 0 for no match
FakeRtlEnd(str, s) ==
  IF s + 1 > Len(str) \/ str[s] # "RLO" \/ str[s + 1] \notin ltrChars_ THEN 0
  ELSE LET ends == {j \in (s + 1) .. (Len(str) - 1) :
                      /\ str[j] \in ltrChars_
                      /\ \A q \in (s + 2) .. (j - 1) :
                           str[q] \notin rtlChars_ \cup bidiControlChars
                      /\ str[j + 1] = "PDF"}
       IN  IF ends = {} THEN 0
           ELSE LET j == CHOOSE k \in ends : \A m \in ends : m <= k
                    neutrals == {n \in 0 .. (Len(str) - j - 1) :
                                   \A q \in (j + 2) .. (j + 1 + n) :
                                     str[q] \in neutralChars_}
                    g == j + 1 + (CHOOSE n \in neutrals :
                                    \A m \in neutrals : m <= n)
                    more == IF g + 1 <= Len(str) THEN FakeRtlEnd(str, g + 1)
                            ELSE 0
                IN  IF more # 0 THEN more ELSE g

\* the end of a match of rtlAndFakeRtlSubstringReg_ at position s, 0 for none
RtlOrFakeEnd(str, s) ==
  IF str[s] \in rtlChars_ THEN RunEnd(str, s, rtlChars_, ltrChars_)
  ELSE FakeRtlEnd(str, s)

RECURSIVE RtlAndFakeFrom(_, _)
RtlAndFakeFrom(str, lastIndex) ==
  LET starts == {s \in (lastIndex + 1) .. Len(str) : RtlOrFakeEnd(str, s) # 0}
  IN  IF starts = {} THEN <<>>
      ELSE LET s == CHOOSE t \in starts : \A u \in starts : t <= u
               e == RtlOrFakeEnd(str, s)
               matched == SubSeq(str, s, e)
               matchString ==
                 SubSeq(matched, 1, Len(matched) - FinalNeutralLength(matched))
           IN  <<Substring(matchString, s - 1)>> \o RtlAndFakeFrom(str, e)

findRtlAndFakeRtlSubstrings(str) == RtlAndFakeFrom(str, 0)

\* the patterns made with the 'g' flag, which keep a lastIndex
GlobalRegs ==
  {"rtlSubstringReg_", "rtlAndFakeRtlSubstringReg_", "ltrSubstringReg_"}

\* RegExp.prototype.exec of a global pattern whose lastIndex is from: the
\* first match that starts at from or later and the lastIndex that it
\* leaves, the end of the match; null and lastIndex 0 when there is none
exec(reg, str, from) ==
  LET matchEnd(s) ==
        CASE reg = "rtlSubstringReg_" ->
               IF str[s] \in rtlChars_
               THEN RunEnd(str, s, rtlChars_, ltrChars_) ELSE 0
          [] reg = "ltrSubstringReg_" ->
               IF str[s] \in ltrChars_
               THEN RunEnd(str, s, ltrChars_, rtlChars_) ELSE 0
          [] reg = "rtlAndFakeRtlSubstringReg_" -> RtlOrFakeEnd(str, s)
      starts == {s \in (from + 1) .. Len(str) : matchEnd(s) # 0}
      found(s) == [match |-> Substring(SubSeq(str, s, matchEnd(s)), s - 1),
                   lastIndex |-> matchEnd(s)]
  IN  IF starts = {} THEN [match |-> NoSubstring, lastIndex |-> 0]
      ELSE found(CHOOSE t \in starts : \A u \in starts : t <= u)

\* the pattern that a finder runs
regOf(finder) ==
  CASE finder = "findRtlSubstrings" -> "rtlSubstringReg_"
    [] finder = "findRtlAndFakeRtlSubstrings" -> "rtlAndFakeRtlSubstringReg_"
    [] finder = "findLtrSubstrings" -> "ltrSubstringReg_"

RECURSIVE execLoop_skipEndsLoop(_, _, _)
\* the loop in which a skipped fake RTL match ends the search
execLoop_skipEndsLoop(finder, str, from) ==
  LET m == exec(regOf(finder), str, from)
      isFakeRtl == /\ charAt(str, m.match.index - 1) = "RLO"
                   /\ charAt(str, m.match.index + Len(m.match.text)) = "PDF"
      rest == execLoop_skipEndsLoop(finder, str, m.lastIndex)
  IN  IF ~m.match.found THEN [results |-> <<>>, lastIndex |-> m.lastIndex]
      ELSE IF finder = "findLtrSubstrings" /\ isFakeRtl
      THEN [results |-> <<>>, lastIndex |-> m.lastIndex]
      ELSE [results |-> <<m.match>> \o rest.results,
            lastIndex |-> rest.lastIndex]

RECURSIVE execLoop(_, _, _)
\* The while loop of a finder, entered with the lastIndex that the pattern
\* has: the results pushed and the lastIndex the pattern is left with.
\* findLtrSubstrings skips a match between RLO and PDF and goes on;
\* findRtlAndFakeRtlSubstrings strips the final neutrals of a match.
execLoop(finder, str, from) ==
  LET m == exec(regOf(finder), str, from)
      isFakeRtl == /\ charAt(str, m.match.index - 1) = "RLO"
                   /\ charAt(str, m.match.index + Len(m.match.text)) = "PDF"
      matchString ==
        SubSeq(m.match.text, 1,
               Len(m.match.text) - FinalNeutralLength(m.match.text))
      pushed ==
        CASE finder = "findLtrSubstrings" ->
               IF isFakeRtl THEN <<>> ELSE <<m.match>>
          [] finder = "findRtlAndFakeRtlSubstrings" ->
               <<Substring(matchString, m.match.index)>>
          [] finder = "findRtlSubstrings" -> <<m.match>>
      rest == execLoop(finder, str, m.lastIndex)
  IN  IF ~m.match.found THEN [results |-> <<>>, lastIndex |-> m.lastIndex]
      ELSE [results |-> pushed \o rest.results, lastIndex |-> rest.lastIndex]

\* no finder has been called
NoFinderCall == [finder |-> "none", str |-> <<>>, results |-> <<>>]

hasOnlyLrmChars(str) ==
  /\ Len(str) >= 1
  /\ \A i \in 1 .. Len(str) : str[i] \in neutralChars_ \cup {"LRM"}

hasOnlyRlmChars(str) ==
  /\ Len(str) >= 1
  /\ \A i \in 1 .. Len(str) : str[i] \in neutralChars_ \cup {"RLM"}

\* ^[neutral]*[nonWhiteNeutral] on str.substr(index)
findVisibleNeutralTextAtIndex(str, index) ==
  LET rest == SubSeq(str, index + 1, Len(str))
      ends == {i \in 1 .. Len(rest) :
                 /\ rest[i] \in nonWhiteNeutralChars_
                 /\ \A j \in 1 .. (i - 1) : rest[j] \in neutralChars_}
  IN  IF ends = {} THEN NoSubstring
      ELSE Substring(SubSeq(rest, 1, CHOOSE i \in ends : \A j \in ends : j <= i),
                     index)

\* [nonWhiteNeutral][neutral]*$ on str.substr(0, index)
findVisibleNeutralTextBeforeIndex(str, index) ==
  LET before == SubSeq(str, 1, index)
      starts == {i \in 1 .. Len(before) :
                   /\ before[i] \in nonWhiteNeutralChars_
                   /\ \A j \in (i + 1) .. Len(before) :
                        before[j] \in neutralChars_}
  IN  IF starts = {} THEN NoSubstring
      ELSE LET i == CHOOSE t \in starts : \A u \in starts : t <= u
           IN  Substring(SubSeq(before, i, Len(before)),
                         index - (Len(before) - i + 1))

----------------------------------------------------------------------------
(* goog.array *)

PeekOr(stack, undefined) ==
  IF stack = <<>> THEN undefined ELSE stack[Len(stack)]

Pop(stack) ==
  IF stack = <<>> THEN stack ELSE SubSeq(stack, 1, Len(stack) - 1)

----------------------------------------------------------------------------
(* bidichecker.DirChunk and bidichecker.CharPositionNodeFinder_ *)

CharPositionNode_(charPos, node) == [charPos |-> charPos, node |-> node]

DirChunk(text, isRtl, node, block, isDeclared) ==
  [isRtl_ |-> isRtl, isDeclared_ |-> isDeclared, block_ |-> block,
   textPieces_ |-> <<text>>, textLength_ |-> Len(text),
   nodePositions_ |-> <<CharPositionNode_(0, node)>>, lastNode_ |-> node]

NullDirChunk == DirChunk(<<>>, FALSE, 0, 0, FALSE)

\* index of the shared NullDirChunk instance in chunks
NullId == 1

NodeFinderAppend(chunk, charPos, node) ==
  IF chunk.lastNode_ # node
  THEN [chunk EXCEPT
          !.nodePositions_ = Append(@, CharPositionNode_(charPos, node)),
          !.lastNode_ = node]
  ELSE chunk

\* append that puts the new text in front of the chunk's pieces
DirChunkAppend_prepends(chunk, text, node) ==
  LET c == NodeFinderAppend(chunk, chunk.textLength_, node)
  IN  [c EXCEPT !.textLength_ = @ + Len(text),
                !.textPieces_ = <<text>> \o @]

DirChunkAppend(chunk, text, node) ==
  LET c == NodeFinderAppend(chunk, chunk.textLength_, node)
  IN  [c EXCEPT !.textLength_ = @ + Len(text),
                !.textPieces_ = Append(@, text)]

isEmpty(chunk) ==
  \A i \in 1 .. Len(chunk.textPieces_) : Len(chunk.textPieces_[i]) = 0

hasSameContext(chunk, isRtl, block, isDeclared) ==
  isRtl = chunk.isRtl_ /\ block = chunk.block_ /\ isDeclared = chunk.isDeclared_

getText(chunk) == Concat(chunk.textPieces_)

\* goog.array.binarySearch on the charPos of the entries, with 0-based
\* indexes: the index of an entry equal to the target, else -(i) - 1 for the
\* insertion point i.  Which of several equal entries is found is left open.
binarySearch(nodePositions, charPos) ==
  LET found == {i \in 1 .. Len(nodePositions) :
                  nodePositions[i].charPos = charPos}
      insertion == Cardinality({i \in 1 .. Len(nodePositions) :
                                  nodePositions[i].charPos < charPos})
  IN  IF found # {} THEN {i - 1 : i \in found} ELSE {0 - insertion - 1}

\* the 0-based indexes findNodeIndexAtPosition_ may return
findNodeIndexAtPosition_(chunk, charPos) ==
  {IF index >= 0 THEN index ELSE 0 - index - 2 :
     index \in binarySearch(chunk.nodePositions_, charPos)}

\* the nodes findNodeAtPosition may return
findNodeAtPosition(chunk, charPos) ==
  {chunk.nodePositions_[index + 1].node :
     index \in findNodeIndexAtPosition_(chunk, charPos)}

----------------------------------------------------------------------------
(* bidichecker.DomWalker *)

RECURSIVE skipNonDisplayable_noSkipTag(_)
\* the loop without skipTag: next() enters the element that is not displayable
skipNonDisplayable_noSkipTag(it) ==
  IF ~it.stop /\ isStartTag(it) /\ ~isDisplayable(it.node)
  THEN skipNonDisplayable_noSkipTag(IterNext(it))
  ELSE it

RECURSIVE skipNonDisplayable(_)
\* the while loop of nextDisplayableNode_
skipNonDisplayable(it) ==
  IF ~it.stop /\ isStartTag(it) /\ ~isDisplayable(it.node)
  THEN skipNonDisplayable(IterNext(skipTag(it)))
  ELSE it

\* the iterator after nextDisplayableNode_; its node is the node returned
nextDisplayableNode_(it) == skipNonDisplayable(IterNext(it))

\* declaresDir_ without the test for the root element
declaresDir_rootToo(element) ==
  IF dom[element].dir = "" THEN FALSE
  ELSE ~\E child \in childNodes(element) :
          dom[child].nodeType = "ELEMENT" /\ isBlockElement(child)

declaresDir_(element) ==
  IF dom[element].dir = "" \/ element = 1 THEN FALSE
  ELSE ~\E child \in childNodes(element) :
          dom[child].nodeType = "ELEMENT" /\ isBlockElement(child)

\* isDeclared without the latch: the enclosing element's status is ignored
startIsDeclared_noLatch(element, declaredStack, rtlStack) ==
  \/ (rtlStack = <<>> \/ isRightToLeft(element) # rtlStack[Len(rtlStack)])
  \/ declaresDir_(element)

\* isDeclared of next_ for an element starting under the given stacks
startIsDeclared(element, declaredStack, rtlStack) ==
  \/ PeekOr(declaredStack, FALSE)
  \/ (rtlStack = <<>> \/ isRightToLeft(element) # rtlStack[Len(rtlStack)])
  \/ declaresDir_(element)

isFrame(element) == dom[element].nodeName \in {"IFRAME", "FRAME"}

\* blockStack_ after the START_TAG of element
startBlockStack(element, blockStack) ==
  IF ~isFrame(element) /\ isBlockElement(element)
  THEN Append(blockStack, element) ELSE blockStack

\* the END_TAG step that pops blockStack_ without the test
endBlockStack_popAlways(element, blockStack) == Pop(blockStack)

\* blockStack_ after the END_TAG of element
endBlockStack(element, blockStack) ==
  IF element = PeekOr(blockStack, 0) THEN Pop(blockStack) ELSE blockStack

inRtl(rtlStack) == PeekOr(rtlStack, FALSE)

parentInRtl(rtlStack) ==
  IF Len(rtlStack) >= 2 THEN rtlStack[Len(rtlStack) - 1] ELSE FALSE

inDeclaredDir(declaredStack) == PeekOr(declaredStack, FALSE)

\* getCurrentBlock of a walker that knows no block
getCurrentBlock_null(blockStack) == 0

getCurrentBlock(blockStack) == PeekOr(blockStack, 0)

StackDepths(rtlStack, declaredStack, blockStack) ==
  [isRtl |-> Len(rtlStack), isDeclared |-> Len(declaredStack),
   block |-> Len(blockStack)]

\* The record of one dispatched DomWalker event: what a listener can query
\* during the dispatch, and the stack depths before and after the step of
\* next_ that dispatched it.
WalkerEvent(type, node, rtlStack, declaredStack, blockStack, before, after) ==
  [type |-> type, node |-> node, inRtl |-> inRtl(rtlStack),
   parentInRtl |-> parentInRtl(rtlStack),
   inDeclaredDir |-> inDeclaredDir(declaredStack),
   currentBlock |-> getCurrentBlock(blockStack),
   before |-> before, after |-> after]

----------------------------------------------------------------------------
(* bidichecker.Error.  The fields candidate, atEvent, chunk, index, doc    *)
(* and locationElement are not fields of the object: they record where the *)
(* error was made.                                                         *)

\* a field that holds null (or was never set)
NullText == <<"null">>

BidiError(type, severity, highlightableArea, atText) ==
  [type |-> type, severity |-> severity,
   highlightableArea |-> highlightableArea,
   atText |-> IF atText = <<>> THEN NullText ELSE atText,
   precededByText |-> NullText, followedByText |-> NullText,
   locationDescription |-> <<>>,
   locationElement |-> 0, candidate |-> 0, atEvent |-> 0, chunk |-> 0,
   index |-> 0, doc |-> doc_]

----------------------------------------------------------------------------
(* bidichecker.FilterFactory: the filters on the fields of the error *)

\* The values of goog.json.parse: a string, a number, null, an array (of no
\* fields) and an object with its fields.  typeof is what the typeof
\* operator of the language gives for the value.
JString(string) == [typeof |-> "string", string |-> string]

JNumber(number) == [typeof |-> "number", number |-> number]

JNull == [typeof |-> "object", isNull |-> TRUE]

JArray == [typeof |-> "object", isNull |-> FALSE, fields |-> [length |-> JNumber(0)]]

JObject(fields) == [typeof |-> "object", isNull |-> FALSE, fields |-> fields]

\* a value that was returned, and the exception thrown in place of one
Returned(value) == [throws |-> FALSE, value |-> value]

Thrown == [throws |-> TRUE]

\* The filters as constructed: the opcode stands for the class.
SeverityFilter_(severityThreshold) ==
  [opcode |-> "SEVERITY", severityThreshold |-> severityThreshold, type |-> ""]

TypeFilter_(type) ==
  [opcode |-> "TYPE", severityThreshold |-> 0, type |-> type]

AndFilter_(filter1, filter2) ==
  [opcode |-> "AND", filter1_ |-> filter1, filter2_ |-> filter2]

OrFilter_(filter1, filter2) ==
  [opcode |-> "OR", filter1_ |-> filter1, filter2_ |-> filter2]

NotFilter_(filter) == [opcode |-> "NOT", filter_ |-> filter]

RECURSIVE isSuppressed(_, _, _)
isSuppressed_andAsOr(filter, error, locationElements) ==
  CASE filter.opcode \in {"AND", "OR"} ->
         \/ isSuppressed(filter.filter1_, error, locationElements)
         \/ isSuppressed(filter.filter2_, error, locationElements)
    [] filter.opcode = "NOT" ->
         ~isSuppressed(filter.filter_, error, locationElements)
    [] filter.opcode = "SEVERITY" ->
         filter.severityThreshold <= error.severity
    [] filter.opcode = "TYPE" -> filter.type = error.type

isSuppressed(filter, error, locationElements) ==
  CASE filter.opcode = "AND" ->
         /\ isSuppressed(filter.filter1_, error, locationElements)
         /\ isSuppressed(filter.filter2_, error, locationElements)
    [] filter.opcode = "OR" ->
         \/ isSuppressed(filter.filter1_, error, locationElements)
         \/ isSuppressed(filter.filter2_, error, locationElements)
    [] filter.opcode = "NOT" ->
         ~isSuppressed(filter.filter_, error, locationElements)
    [] filter.opcode = "SEVERITY" ->
         filter.severityThreshold <= error.severity
    [] filter.opcode = "TYPE" -> filter.type = error.type

\* field in bareObject
checkParamExists_(bareObject, field) ==
  IF field \in DOMAIN bareObject.fields THEN Returned(TRUE) ELSE Thrown

checkParam_(bareObject, field, type) ==
  IF checkParamExists_(bareObject, field).throws THEN Thrown
  ELSE IF bareObject.fields[field].typeof # type THEN Thrown
  ELSE Returned(TRUE)

getStringParam_(bareObject, field) ==
  IF checkParam_(bareObject, field, "string").throws THEN Thrown
  ELSE Returned(bareObject.fields[field].string)

getNumberParam_(bareObject, field) ==
  IF checkParam_(bareObject, field, "number").throws THEN Thrown
  ELSE Returned(bareObject.fields[field].number)

\* bareFilter['opcode'], "undefined" for a value that has no such field;
\* reading a field of null throws a TypeError
opcodeOf(bareFilter) ==
  IF bareFilter.typeof = "object" /\ bareFilter.isNull THEN Thrown
  ELSE IF bareFilter.typeof # "object"
          \/ "opcode" \notin DOMAIN bareFilter.fields
  THEN Returned([typeof |-> "undefined"])
  ELSE Returned(bareFilter.fields["opcode"])

RECURSIVE constructFilter_(_)
\* A value of goog.json.parse is never a constructed filter: the instanceof
\* branch is not taken.
getFilterParam_(bareObject, field) ==
  IF checkParam_(bareObject, field, "object").throws THEN Thrown
  ELSE LET subfilterObject == bareObject.fields[field]
           opcode == opcodeOf(subfilterObject)
       IN  IF opcode.throws THEN Thrown
           ELSE IF opcode.value.typeof = "string"
           THEN constructFilter_(subfilterObject)
           ELSE Thrown

\* The opcodes of the filters on the text and on the location of the error
\* are left out: a bare filter of the model has none of them.
constructFilter_(bareFilter) ==
  LET opcode == opcodeOf(bareFilter)
      two(class) ==
        LET filter1 == getFilterParam_(bareFilter, "filter1")
        IN  IF filter1.throws THEN Thrown
            ELSE LET filter2 == getFilterParam_(bareFilter, "filter2")
                 IN  IF filter2.throws THEN Thrown
                     ELSE Returned([opcode |-> class,
                                    filter1_ |-> filter1.value,
                                    filter2_ |-> filter2.value])
  IN  IF opcode.throws THEN Thrown
      ELSE IF opcode.value.typeof # "string" THEN Thrown
      ELSE CASE opcode.value.string = "AND" -> two("AND")
             [] opcode.value.string = "OR" -> two("OR")
             [] opcode.value.string = "NOT" ->
                  LET filter == getFilterParam_(bareFilter, "filter")
                  IN  IF filter.throws THEN Thrown
                      ELSE Returned(NotFilter_(filter.value))
             [] opcode.value.string = "SEVERITY" ->
                  LET severityThreshold ==
                        getNumberParam_(bareFilter, "severityThreshold")
                  IN  IF severityThreshold.throws THEN Thrown
                      ELSE Returned(SeverityFilter_(severityThreshold.value))
             [] opcode.value.string = "TYPE" ->
                  LET type == getStringParam_(bareFilter, "type")
                  IN  IF type.throws THEN Thrown
                      ELSE Returned(TypeFilter_(type.value))
             [] OTHER -> Thrown

\* opt_filtersJson as goog.json.parse reads it: the list of the bare
\* filters, or no list when the string is absent or empty
NoFiltersJson == [given |-> FALSE, list |-> <<>>]

FiltersJson(list) == [given |-> TRUE, list |-> list]

\* the filters that could be constructed, in place of the exception
readFiltersFromJson_skipInvalid(filtersJson) ==
  LET built == [i \in 1 .. Len(filtersJson.list) |->
                  constructFilter_(filtersJson.list[i])]
      valid == SelectSeq(built, LAMBDA b : ~b.throws)
  IN  Returned([i \in 1 .. Len(valid) |-> valid[i].value])

\* goog.array.map over the bare filters: the first exception ends it.  With
\* no string the result is null, which checkPage reads as no filters.
readFiltersFromJson(filtersJson) ==
  IF ~filtersJson.given THEN Returned(<<>>)
  ELSE LET built == [i \in 1 .. Len(filtersJson.list) |->
                       constructFilter_(filtersJson.list[i])]
       IN  IF \E i \in 1 .. Len(built) : built[i].throws THEN Thrown
           ELSE Returned([i \in 1 .. Len(built) |-> built[i].value])

----------------------------------------------------------------------------
(* bidichecker.Error, over the values of the language.  A string is the    *)
(* sequence of its characters; the name of an error type, which has        *)
(* letters and spaces only, is written as one of them.  An object is the   *)
(* function from the names of its own properties to their values.          *)

JUndefined == [typeof |-> "undefined"]

\* a highlightable area: an object, told from the others by its name
HighlightableArea(name) == [typeof |-> "object", isNull |-> FALSE, area |-> name]

\* value == null, which holds of undefined too
isNullish(value) ==
  \/ value.typeof = "undefined"
  \/ value.typeof = "object" /\ value.isNull

\* the value as the condition of an if
truthy(value) ==
  CASE value.typeof = "string" -> value.string # <<>>
    [] value.typeof = "number" -> value.number # 0
    [] OTHER -> ~isNullish(value)

\* the properties of bidichecker.Error.prototype
ErrorPrototype ==
  [precededByText |-> JNull, followedByText |-> JNull,
   locationDescription |-> JNull, asString |-> JNull]

\* error[field], through the prototype
getField(error, field) ==
  IF field \in DOMAIN error THEN error[field]
  ELSE IF field \in DOMAIN ErrorPrototype THEN ErrorPrototype[field]
  ELSE JUndefined

\* fields, of the constructor
errorFields == <<"id", "type", "severity", "atText", "locationDescription",
                 "precededByText", "followedByText">>

errorFieldNames == {errorFields[i] : i \in DOMAIN errorFields}

requiredFields == {"id", "type", "severity"}

\* the constructor that takes a field that is 0 or empty for a missing one
Error_falsyIsMissing(typeOrRawObject, opt_severity, opt_highlightableArea, opt_atText) ==
  IF typeOrRawObject.typeof = "object"
  THEN IF typeOrRawObject.isNull THEN Thrown
       ELSE LET object == typeOrRawObject.fields
                this == [field \in errorFieldNames |->
                           IF field \in DOMAIN object THEN object[field]
                           ELSE JNull]
            IN  IF \E field \in requiredFields : ~truthy(this[field])
                THEN Thrown
                ELSE [throws |-> FALSE, isNew |-> FALSE, this |-> this,
                      highlightableArea |-> JNull]
  ELSE Thrown

\* new bidichecker.Error: the properties of the object, and for an object
\* made from scratch the area to be set for its id.  A raw object that is
\* null throws a TypeError at the first field.
Error(typeOrRawObject, opt_severity, opt_highlightableArea, opt_atText) ==
  IF typeOrRawObject.typeof = "object"
  THEN IF typeOrRawObject.isNull THEN Thrown
       ELSE LET object == typeOrRawObject.fields
                this == [field \in errorFieldNames |->
                           IF field \in DOMAIN object THEN object[field]
                           ELSE JNull]
            IN  IF \E field \in requiredFields : isNullish(this[field])
                THEN Thrown
                ELSE [throws |-> FALSE, isNew |-> FALSE, this |-> this,
                      highlightableArea |-> JNull]
  ELSE IF isNullish(opt_severity) THEN Thrown
  ELSE [throws |-> FALSE, isNew |-> TRUE,
        this |-> [id |-> JNumber(nextErrorId_), type |-> typeOrRawObject,
                  severity |-> opt_severity,
                  atText |-> IF truthy(opt_atText) THEN opt_atText
                             ELSE JNull],
        highlightableArea |-> IF truthy(opt_highlightableArea)
                              THEN opt_highlightableArea ELSE JNull]

\* bidichecker.Error.highlightableAreas_ = []
NoAreas == <<>>

setHighlightableArea(areas, error, highlightableArea) ==
  (error["id"].number :> highlightableArea) @@ areas

\* bidichecker.Error.prototype.getHighlightableArea
errorGetHighlightableArea(error) ==
  LET id == error["id"]
  IN  IF /\ id.typeof = "number"
         /\ id.number \in DOMAIN highlightableAreas_
         /\ truthy(highlightableAreas_[id.number])
      THEN highlightableAreas_[id.number]
      ELSE JNull

\* the hexadecimal code of a nonprinting character
charCodeAt ==
  [LRM |-> "200e", RLM |-> "200f", RLO |-> "202e", PDF |-> "202c"]

\* bidichecker.utils.escapeChar: the characters of escapedChars_, then the
\* nonprinting ones.  What it adds to escapedChars_ is what it would
\* compute again.
escapeChar(c) ==
  IF c \in {"\"", "'", "\\"} THEN <<"\\", c>>
  ELSE IF c \in DOMAIN charCodeAt THEN <<"\\u" \o charCodeAt[c]>>
  ELSE <<c>>

escapeString(str) == Concat([i \in 1 .. Len(str) |-> escapeChar(str[i])])

singleQuoteString(str) == <<"'">> \o escapeString(str) \o <<"'">>

ELLIPSIS == "..."

truncateString(str, maxLength) ==
  IF Len(str) > maxLength
  THEN SubSeq(str, 1, maxLength) \o <<ELLIPSIS>>
  ELSE str

AT_TEXT_TRUNCATION_LENGTH == 20

\* Number.prototype.toString, and the string itself for a string
valueToString(value) ==
  IF value.typeof = "number" THEN <<ToString(value.number)>>
  ELSE value.string

\* bidichecker.Error.prototype.toString
toString(error) ==
  LET part(field, before, shown(_)) ==
        LET value == getField(error, field)
        IN  IF truthy(value) THEN <<before>> \o shown(value.string) ELSE <<>>
      atText(value) ==
        singleQuoteString(truncateString(value, AT_TEXT_TRUNCATION_LENGTH))
      plain(value) == value
  IN  JString(<<"[">> \o valueToString(getField(error, "severity"))
                \o <<"] ">> \o getField(error, "type").string
                \o part("atText", ": ", atText)
                \o part("precededByText", " preceded by ", singleQuoteString)
                \o part("followedByText", " followed by ", singleQuoteString)
                \o part("locationDescription", " in ", plain))

\* goog.json.serialize of a value: the text of a number, the characters of a
\* string between quotes with the quote and the backslash escaped, null
serializeValue(value) ==
  CASE value.typeof = "number" ->
         [kind |-> "number", text |-> ToString(value.number)]
    [] value.typeof = "string" ->
         [kind |-> "string",
          chars |-> Concat([i \in 1 .. Len(value.string) |->
                              IF value.string[i] \in {"\"", "\\"}
                              THEN <<"\\", value.string[i]>>
                              ELSE <<value.string[i]>>])]
    [] OTHER -> [kind |-> "null"]

\* goog.json.serialize of an object: its own properties, in the order in
\* which the constructor and the setters make them
serializeObject(error) ==
  LET order == errorFields \o <<"asString">>
      own == SelectSeq(order, LAMBDA field : field \in DOMAIN error)
  IN  [i \in 1 .. Len(own) |->
         [name |-> own[i], value |-> serializeValue(error[own[i]])]]

RECURSIVE unescape(_)
unescape(chars) ==
  IF chars = <<>> THEN <<>>
  ELSE IF Head(chars) = "\\" /\ Len(chars) > 1
  THEN <<chars[2]>> \o unescape(Tail(Tail(chars)))
  ELSE <<Head(chars)>> \o unescape(Tail(chars))

\* the numbers that the texts of the model stand for
Numbers == 0 .. (MaxErrors + AT_TEXT_TRUNCATION_LENGTH)

\* goog.json.parse of the text of a value
parseValue(text) ==
  CASE text.kind = "number" ->
         JNumber(CHOOSE n \in Numbers : ToString(n) = text.text)
    [] text.kind = "string" -> JString(unescape(text.chars))
    [] OTHER -> JNull

\* goog.json.parse of the text of an object: a later member of the same
\* name replaces an earlier one
parseObject(members) ==
  JObject([name \in {members[i].name : i \in DOMAIN members} |->
             LET last == CHOOSE i \in DOMAIN members :
                           /\ members[i].name = name
                           /\ \A k \in DOMAIN members :
                                members[k].name = name => k <= i
             IN  parseValue(members[last].value)])

----------------------------------------------------------------------------
(* bidichecker.utils.describeLocation, over the nodes of a document and    *)
(* the name of the node above its root.  A description is the sequence of  *)
(* its parts, a part the tag name in lower case with the dir attribute.    *)

toLowerCase(nodeName) ==
  LET lower == {<<"BODY", "body">>, <<"DIV", "div">>, <<"P", "p">>,
                <<"TABLE", "table">>, <<"SPAN", "span">>,
                <<"IFRAME", "iframe">>, <<"FRAME", "frame">>,
                <<"SCRIPT", "script">>, <<"STYLE", "style">>,
                <<"NOSCRIPT", "noscript">>, <<"INPUT", "input">>,
                <<"IMG", "img">>, <<"TEXTAREA", "textarea">>}
  IN  (CHOOSE pair \in lower : pair[1] = nodeName)[2]

describeNode(tree, node) ==
  [nodeName |-> toLowerCase(tree[node].nodeName), dir |-> tree[node].dir]

\* nodeName of current.parentNode
ParentName(tree, rootParent, current) ==
  IF tree[current].depth = 0 THEN rootParent
  ELSE tree[parentNodeIn(tree, current)].nodeName

RECURSIVE describeLocation(_, _, _)
\* The loop stops below a BODY or FRAMESET.  From a node that has neither
\* above it the loop reaches the document node, whose parentNode is null:
\* reading its nodeName throws a TypeError.
describeLocation(tree, rootParent, node) ==
  IF ParentName(tree, rootParent, node) \in {"BODY", "FRAMESET"}
  THEN [throws |-> FALSE, parts |-> <<describeNode(tree, node)>>]
  ELSE IF tree[node].depth = 0
  THEN [throws |-> TRUE, parts |-> <<>>]
  ELSE LET above == describeLocation(tree, rootParent,
                                     parentNodeIn(tree, node))
       IN  [throws |-> above.throws,
            parts |-> IF above.throws THEN <<>>
                      ELSE Append(above.parts, describeNode(tree, node))]

----------------------------------------------------------------------------
(* bidichecker.ErrorCollector.  A collector state is the list errors_, the *)
(* log of the calls of addError, whether a call has thrown, and the way    *)
(* goog.array.binarySearch breaks ties during this step.                   *)

Collector(errors, log, pick) ==
  [errors_ |-> errors, log |-> log, thrown |-> FALSE, pick |-> pick]

\* an element of a document of the page
ElementOf(doc, node) == [doc |-> doc, node |-> node]

\* forEachRight over the location elements, joined with ' in '
generateLocationDescription_(locationElements) ==
  LET n == Len(locationElements)
      described == [i \in 1 .. n |->
                      LET at == locationElements[n + 1 - i]
                      IN  describeLocation(page[at.doc].dom,
                                           page[at.doc].rootParent, at.node)]
  IN  [throws |-> \E i \in 1 .. n : described[i].throws,
       parts |-> [i \in 1 .. n |-> described[i].parts]]

addError(ec, error, locationElement) ==
  LET placed == [error EXCEPT !.locationElement = locationElement]
      locationElements ==
        frameStack_ \o (IF locationElement # 0
                        THEN <<ElementOf(doc_, locationElement)>> ELSE <<>>)
      isAccepted ==
        \A i \in 1 .. Len(filters_) :
          ~isSuppressed(filters_[i], placed, locationElements)
      description == generateLocationDescription_(locationElements)
      described == IF description.parts # <<>>
                   THEN [placed EXCEPT !.locationDescription = description.parts]
                   ELSE placed
      call(outcome, e) == [error |-> e, locationElements |-> locationElements,
                           outcome |-> outcome]
  IN  IF ~isAccepted
      THEN [ec EXCEPT !.log = Append(@, call("suppressed", placed))]
      ELSE IF description.throws
      THEN [ec EXCEPT !.log = Append(@, call("failed", placed)),
                      !.thrown = TRUE]
      ELSE [ec EXCEPT !.errors_ = Append(@, described),
                      !.log = Append(@, call("accepted", described)),
                      !.thrown = throwOnError_]

----------------------------------------------------------------------------
(* bidichecker.UndeclaredTextDetector, listening to the DIR_CHUNK events *)

\* the index goog.array.binarySearch settles on among the possible ones
Resolve(indexes, pick) ==
  IF pick = "lowest" THEN CHOOSE i \in indexes : \A j \in indexes : i <= j
  ELSE CHOOSE i \in indexes : \A j \in indexes : j <= i

getHighlightableArea(chunk, startPos, length, pick) ==
  LET startIndex == Resolve(findNodeIndexAtPosition_(chunk, startPos), pick)
      endIndex == Resolve(findNodeIndexAtPosition_(chunk,
                                                   startPos + length - 1), pick)
  IN  [nodes |-> [i \in 1 .. (endIndex - startIndex + 1) |->
                    chunk.nodePositions_[startIndex + i].node],
       startOffset |-> startPos - chunk.nodePositions_[startIndex + 1].charPos,
       endOffset |->
         startPos + length - chunk.nodePositions_[endIndex + 1].charPos]

\* addAdjacentNeutrals_ that lowers the severity for whitespace too
addAdjacentNeutrals_anyNeutral(text, match, error) ==
  LET end == match.index + Len(match.text)
      before == match.index >= 1 /\ text[match.index] \in neutralChars_
      after == end < Len(text) /\ text[end + 1] \in neutralChars_
  IN  [error EXCEPT
         !.severity = IF @ = 3 /\ (before \/ after) THEN 2 ELSE @,
         !.precededByText = IF before THEN <<text[match.index]>> ELSE @,
         !.followedByText = IF after THEN <<text[end + 1]>> ELSE @]

addAdjacentNeutrals_(text, match, error) ==
  LET neutralsBefore == findVisibleNeutralTextBeforeIndex(text, match.index)
      neutralsAfter ==
        findVisibleNeutralTextAtIndex(text, match.index + Len(match.text))
      first == IF neutralsBefore.found
               THEN [error EXCEPT !.severity = IF @ = 3 THEN 2 ELSE @,
                                  !.precededByText = neutralsBefore.text]
               ELSE error
  IN  IF neutralsAfter.found
      THEN [first EXCEPT !.severity = IF @ = 3 THEN 2 ELSE @,
                         !.followedByText = neutralsAfter.text]
      ELSE first

\* UndeclaredTextDetector.addError_; chunkId and atEvent tell where it was
addError_(ec, chunk, chunkId, match, message, atEvent) ==
  LET severity == IF chunk.isDeclared_ THEN 4 ELSE 3
      highlightableArea ==
        getHighlightableArea(chunk, match.index, Len(match.text), ec.pick)
      error == [BidiError(message, severity, highlightableArea, match.text)
                  EXCEPT !.chunk = chunkId, !.index = match.index,
                         !.atEvent = atEvent]
      locationElement ==
        parentNode(chunk.nodePositions_[
          Resolve(findNodeIndexAtPosition_(chunk, match.index), ec.pick) + 1
        ].node)
  IN  addError(ec, addAdjacentNeutrals_(getText(chunk), match, error),
               locationElement)

RECURSIVE AddErrorsFrom(_, _, _, _, _, _, _)
\* goog.array.forEach over the matches from the i-th on: an exception ends it
AddErrorsFrom(ec, chunk, chunkId, matches, i, message, atEvent) ==
  IF i > Len(matches) \/ ec.thrown THEN ec
  ELSE AddErrorsFrom(
         addError_(ec, chunk, chunkId, matches[i], message, atEvent),
         chunk, chunkId, matches, i + 1, message, atEvent)

\* handleChunk_ that reports the runs of marks and neutrals too
handleChunk_marksToo(ec, chunk, chunkId, atEvent) ==
  IF chunk.isRtl_
  THEN AddErrorsFrom(ec, chunk, chunkId, findLtrSubstrings(getText(chunk)), 1,
                     "Undeclared LTR text", atEvent)
  ELSE AddErrorsFrom(ec, chunk, chunkId,
                     IF revision_ >= 2
                     THEN findRtlAndFakeRtlSubstrings(getText(chunk))
                     ELSE findRtlSubstrings(getText(chunk)),
                     1, "Undeclared RTL text", atEvent)

handleChunk_(ec, chunk, chunkId, atEvent) ==
  IF chunk.isRtl_
  THEN AddErrorsFrom(ec, chunk, chunkId,
                     SelectSeq(findLtrSubstrings(getText(chunk)),
                               LAMBDA match : ~hasOnlyLrmChars(match.text)),
                     1, "Undeclared LTR text", atEvent)
  ELSE AddErrorsFrom(ec, chunk, chunkId,
                     SelectSeq(IF revision_ >= 2
                               THEN findRtlAndFakeRtlSubstrings(getText(chunk))
                               ELSE findRtlSubstrings(getText(chunk)),
                               LAMBDA match : ~hasOnlyRlmChars(match.text)),
                     1, "Undeclared RTL text", atEvent)

----------------------------------------------------------------------------
(* bidichecker.SpilloverDetector: each handler maps the detector's fields  *)
(* (and the collector's state) to their values after the handler.          *)

SpillState(candidate, textNodes, ec) ==
  [candidate_ |-> candidate, textNodes_ |-> textNodes, ec |-> ec]

handleStartTag_(sd, element, currentBlock) ==
  IF dom[element].dir # "" \/ element = currentBlock
  THEN [sd EXCEPT !.candidate_ = 0]
  ELSE sd

handleEndTag_(sd, element, currentBlock, nowRtl, parentRtl) ==
  IF element = currentBlock THEN [sd EXCEPT !.candidate_ = 0]
  ELSE IF dom[element].dir # ""
  THEN IF nowRtl = parentRtl THEN [sd EXCEPT !.candidate_ = 0]
       ELSE [sd EXCEPT !.candidate_ = element, !.textNodes_ = <<>>]
  ELSE sd

\* makeError_ that ends the highlightable area at the length of atText
makeError_endOfAtText(sd, atText, endOffset, nowRtl, nowDeclared, atEvent) ==
  [BidiError(IF nowRtl THEN "Declared LTR spillover to number"
             ELSE "Declared RTL spillover to number",
             IF nowDeclared THEN 4 ELSE 2,
             [nodes |-> sd.textNodes_, startOffset |-> 0,
              endOffset |-> Len(atText)],
             atText)
     EXCEPT !.precededByText = getTextContents(sd.candidate_),
            !.candidate = sd.candidate_,
            !.atEvent = atEvent]

makeError_(sd, atText, endOffset, nowRtl, nowDeclared, atEvent) ==
  [BidiError(IF nowRtl THEN "Declared LTR spillover to number"
             ELSE "Declared RTL spillover to number",
             IF nowDeclared THEN 4 ELSE 2,
             [nodes |-> sd.textNodes_, startOffset |-> 0,
              endOffset |-> endOffset],
             atText)
     EXCEPT !.precededByText = getTextContents(sd.candidate_),
            !.candidate = sd.candidate_,
            !.atEvent = atEvent]

\* handleTextNode_ that looks for a strongly-directional character first
SpillHandleTextNode_strongFirst(sd, node, nowRtl, nowDeclared, atEvent) ==
  IF sd.candidate_ # 0
  THEN LET pushed == [sd EXCEPT !.textNodes_ = Append(@, node)]
           matchLen == findNumberAtStart(dom[node].data)
       IN  IF hasDirectionalCharacter(dom[node].data)
           THEN [pushed EXCEPT !.candidate_ = 0]
           ELSE IF matchLen # 0
           THEN LET ec == addError(pushed.ec, makeError_(pushed,
                                   dom[node].data, matchLen, nowRtl,
                                   nowDeclared, atEvent),
                                   parentNode(node))
                IN  [pushed EXCEPT
                       !.ec = ec,
                       !.candidate_ = IF ec.thrown THEN @ ELSE 0]
           ELSE pushed
  ELSE sd

SpillHandleTextNode_(sd, node, nowRtl, nowDeclared, atEvent) ==
  IF sd.candidate_ # 0
  THEN LET pushed == [sd EXCEPT !.textNodes_ = Append(@, node)]
           matchLen == findNumberAtStart(dom[node].data)
       IN  IF matchLen # 0
           THEN LET currentText ==
                      Concat([i \in 1 .. Len(pushed.textNodes_) |->
                                dom[pushed.textNodes_[i]].data])
                    postMatchLength == Len(dom[node].data) - matchLen
                    prefixLength == Len(currentText) - postMatchLength
                    atText == SubSeq(currentText, 1, prefixLength)
                    locationElement ==
                      parentNode(pushed.textNodes_[Len(pushed.textNodes_)])
                    ec == addError(pushed.ec, makeError_(pushed, atText,
                                     matchLen, nowRtl, nowDeclared, atEvent),
                                   locationElement)
                IN  [pushed EXCEPT
                       !.ec = ec,
                       !.candidate_ = IF ec.thrown THEN @ ELSE 0]
           ELSE IF hasDirectionalCharacter(dom[node].data)
           THEN [pushed EXCEPT !.candidate_ = 0]
           ELSE pushed
  ELSE sd

----------------------------------------------------------------------------
(* bidichecker.DirChunkWalker: each handler maps the chunk heap, chunk_,   *)
(* the list of dispatched events and the collector's state to their values *)
(* after the handler.                                                      *)

ChunkState(heap, current, dispatched, ec) ==
  [chunks |-> heap, chunk_ |-> current, chunkEvents |-> dispatched, ec |-> ec]

\* dispatchEvent of the DirChunkWalker: getChunk() is what listeners see
ChunkEvent(type, cs, atEvent) ==
  [type |-> type, chunk |-> cs.chunk_, seen |-> cs.chunks[cs.chunk_],
   atEvent |-> atEvent]

\* the listener of DIR_CHUNK is UndeclaredTextDetector.handleChunk_
dispatchChunkEvent(cs, type, atEvent) ==
  [cs EXCEPT !.chunkEvents = Append(@, ChunkEvent(type, cs, atEvent)),
             !.ec = IF type = "DirChunk"
                    THEN handleChunk_(@, cs.chunks[cs.chunk_], cs.chunk_,
                                      atEvent)
                    ELSE @]

\* handleTextNode_ that refills the dispatched chunk instead of making one
ChunkHandleTextNode_reuse(cs, node, nowRtl, block, nowDeclared, atEvent) ==
  IF hasSameContext(cs.chunks[cs.chunk_], nowRtl, block, nowDeclared)
  THEN [cs EXCEPT !.chunks[cs.chunk_] = DirChunkAppend(@, dom[node].data, node)]
  ELSE LET newChunk(sent) ==
             IF sent.ec.thrown THEN sent
             ELSE IF cs.chunk_ = NullId
             THEN [sent EXCEPT
                     !.chunks = Append(@, DirChunk(dom[node].data, nowRtl,
                                                   node, block, nowDeclared)),
                     !.chunk_ = Len(cs.chunks) + 1]
             ELSE [sent EXCEPT
                     !.chunks[cs.chunk_] = DirChunk(dom[node].data, nowRtl,
                                                    node, block, nowDeclared)]
       IN  newChunk(IF ~isEmpty(cs.chunks[cs.chunk_])
                    THEN dispatchChunkEvent(cs, "DirChunk", atEvent)
                    ELSE cs)

\* handleTextNode_ that dispatches the previous chunk even when it is empty
ChunkHandleTextNode_noEmptyTest(cs, node, nowRtl, block, nowDeclared, atEvent) ==
  IF hasSameContext(cs.chunks[cs.chunk_], nowRtl, block, nowDeclared)
  THEN [cs EXCEPT !.chunks[cs.chunk_] = DirChunkAppend(@, dom[node].data, node)]
  ELSE LET newChunk(sent) ==
             IF sent.ec.thrown THEN sent
             ELSE [sent EXCEPT
                     !.chunks = Append(@, DirChunk(dom[node].data, nowRtl,
                                                   node, block, nowDeclared)),
                     !.chunk_ = Len(cs.chunks) + 1]
       IN  newChunk(dispatchChunkEvent(cs, "DirChunk", atEvent))

ChunkHandleTextNode_(cs, node, nowRtl, block, nowDeclared, atEvent) ==
  IF hasSameContext(cs.chunks[cs.chunk_], nowRtl, block, nowDeclared)
  THEN [cs EXCEPT !.chunks[cs.chunk_] = DirChunkAppend(@, dom[node].data, node)]
  ELSE LET newChunk(sent) ==
             IF sent.ec.thrown THEN sent
             ELSE [sent EXCEPT
                     !.chunks = Append(@, DirChunk(dom[node].data, nowRtl,
                                                   node, block, nowDeclared)),
                     !.chunk_ = Len(cs.chunks) + 1]
       IN  newChunk(IF ~isEmpty(cs.chunks[cs.chunk_])
                    THEN dispatchChunkEvent(cs, "DirChunk", atEvent)
                    ELSE cs)

\* handleEndOfDom_ that dispatches the last chunk even when it is empty
handleEndOfDom_noEmptyTest(cs, atEvent) ==
  LET endOfChunks(sent) ==
        IF sent.ec.thrown THEN sent
        ELSE dispatchChunkEvent(sent, "EndOfChunks", atEvent)
  IN  endOfChunks(dispatchChunkEvent(cs, "DirChunk", atEvent))

handleEndOfDom_(cs, atEvent) ==
  LET endOfChunks(sent) ==
        IF sent.ec.thrown THEN sent
        ELSE dispatchChunkEvent(sent, "EndOfChunks", atEvent)
  IN  endOfChunks(IF ~isEmpty(cs.chunks[cs.chunk_])
                  THEN dispatchChunkEvent(cs, "DirChunk", atEvent)
                  ELSE cs)

----------------------------------------------------------------------------
\* the ways goog.array.binarySearch may break a tie between equal entries
BinarySearchPicks == {"lowest", "highest"}

\* what the steps of DomWalker.go leave alone
scanVars == <<errorVars, highlightVars, utilsVars, opt_filtersJson, page, doc_, filters_, throwOnError_, revision_, expectedDir_,
              frameStack_, frameEvents, scanStack>>

\* a document of the page: its nodes, the nodeName of the parent of its
\* root, and the frame element whose content document it is (none for 1)
Document(d, rootParent, host) ==
  [dom |-> d, rootParent |-> rootParent, host |-> host]

----------------------------------------------------------------------------
(* The listeners of a pass.  goog.events holds a listener from the call    *)
(* that adds it until removeAll of the goog.events.EventHandler that added *)
(* it or, for a listener added with listenOnce, until its event is fired.  *)

\* a listener of the pass over the document pass: the target it listens to,
\* the type of the event, the object that added it, whether with listenOnce
Listener(pass, src, type, owner, callOnce) ==
  [pass |-> pass, src |-> src, type |-> type, owner |-> owner,
   callOnce |-> callOnce]

\* the listeners the constructor of DirChunkWalker adds
DirChunkWalkerListeners(pass) ==
  {Listener(pass, "DomWalker", "TextNode", "DirChunkWalker", FALSE),
   Listener(pass, "DomWalker", "EndOfDom", "DirChunkWalker", TRUE)}

\* the listeners startListening of a detector adds
startListening(detector, pass) ==
  CASE detector = "OverallDirectionalityDetector" ->
         {Listener(pass, "DomWalker", "StartTag", detector, TRUE)}
    [] detector = "UndeclaredTextDetector" ->
         {Listener(pass, "DirChunkWalker", "DirChunk", detector, FALSE),
          Listener(pass, "DirChunkWalker", "EndOfChunks", detector, TRUE)}
    [] detector = "UndeclaredFieldDetector" ->
         {Listener(pass, "DomWalker", "StartTag", detector, FALSE),
          Listener(pass, "DomWalker", "EndOfDom", detector, TRUE)}
    [] detector = "SpilloverDetector" ->
         {Listener(pass, "DomWalker", "StartTag", detector, FALSE),
          Listener(pass, "DomWalker", "EndTag", detector, FALSE),
          Listener(pass, "DomWalker", "TextNode", detector, FALSE),
          Listener(pass, "DomWalker", "EndOfDom", detector, TRUE)}

\* TextErrorScanner.buildDetectors: the detectors, in their order
buildDetectors(expectedDir, revision) ==
  (IF expectedDir # "UNKNOWN" THEN <<"OverallDirectionalityDetector">>
   ELSE <<>>)
  \o <<"UndeclaredTextDetector">>
  \o (IF revision >= 2 THEN <<"UndeclaredFieldDetector">> ELSE <<>>)
  \o <<"SpilloverDetector">>

\* the listeners Scanner.runDetectors_ has added when it calls go
runDetectors_(pass, expectedDir, revision) ==
  LET detectors == buildDetectors(expectedDir, revision)
  IN  DirChunkWalkerListeners(pass)
      \cup UNION {startListening(detectors[i], pass) :
                    i \in 1 .. Len(detectors)}

\* EventHandler.removeAll of the handler of owner
removeAll(listeners, pass, owner) ==
  {l \in listeners : ~(l.pass = pass /\ l.owner = owner)}

\* fireListeners that leaves the listeners of listenOnce subscribed
fireListeners_keepOnce(listeners, pass, src, type) == listeners

\* the listeners left once an event of the type has been fired at all the
\* listeners of the target: those of listenOnce are removed
fireListeners(listeners, pass, src, type) ==
  {l \in listeners :
     ~(l.pass = pass /\ l.src = src /\ l.type = type /\ l.callOnce)}

isListening(pass, src, type, owner) ==
  \E l \in listeners_ :
    l.pass = pass /\ l.src = src /\ l.type = type /\ l.owner = owner

\* the listeners after END_OF_DOM has been fired at all its listeners:
\* DirChunkWalker.handleEndOfDom_ has sent END_OF_CHUNKS, at which the
\* handler of the UndeclaredTextDetector removes its listeners, and has
\* removed its own; then the handlers of the detectors that listen to
\* END_OF_DOM have removed theirs
endOfDomListeners(listeners, pass) ==
  LET owners == {l.owner : l \in {k \in listeners :
                   k.pass = pass /\ k.src = "DomWalker"
                   /\ k.type = "EndOfDom"}}
      chunkOwners == {l.owner : l \in {k \in listeners :
                        k.pass = pass /\ k.src = "DirChunkWalker"
                        /\ k.type = "EndOfChunks"}}
      afterFire == fireListeners(
                     fireListeners(listeners, pass, "DomWalker", "EndOfDom"),
                     pass, "DirChunkWalker", "EndOfChunks")
  IN  {l \in afterFire : ~(l.pass = pass /\ l.owner \in owners \cup chunkOwners)}

----------------------------------------------------------------------------
(* bidichecker.UndeclaredFieldDetector *)

\* getErrorSeverity_ that looks at the neutrals before the declarations
getErrorSeverity_neutralsFirst(element, value, fieldType) ==
  IF fieldType \in {"input value", "textarea value"} THEN 1
  ELSE IF \/ findVisibleNeutralTextAtIndex(value, 0).found
          \/ findVisibleNeutralTextBeforeIndex(value, Len(value)).found
  THEN 2
  ELSE IF \/ dom[element].dir # ""
          \/ dom[element].attributes.styleDirection # ""
          \/ isRightToLeft(element)
               # (IF dom[element].depth = 0 THEN isRightToLeft(element)
                  ELSE isRightToLeft(parentNode(element)))
  THEN 4
  ELSE 3

\* The node above the root element of the scan is not a node of the model:
\* the root, which has none of the attributes, has its direction.
getErrorSeverity_(element, value, fieldType) ==
  IF fieldType \in {"input value", "textarea value"} THEN 1
  ELSE IF \/ dom[element].dir # ""
          \/ dom[element].attributes.styleDirection # ""
          \/ isRightToLeft(element)
               # (IF dom[element].depth = 0 THEN isRightToLeft(element)
                  ELSE isRightToLeft(parentNode(element)))
  THEN 4
  ELSE IF \/ findVisibleNeutralTextAtIndex(value, 0).found
          \/ findVisibleNeutralTextBeforeIndex(value, Len(value)).found
  THEN 2
  ELSE 3

\* checkField_ that reports text of the other direction next to text of
\* the direction of the element too
checkField_anyOpposite(ec, element, value, fieldType, atEvent) ==
  LET isRtlElement == isRightToLeft(element)
      check(hasLtrText, hasRtlText) ==
        IF (IF isRtlElement THEN hasLtrText ELSE hasRtlText)
        THEN addError(ec,
               [BidiError("Undeclared "
                            \o (IF isRtlElement THEN "LTR" ELSE "RTL")
                            \o " " \o fieldType,
                          getErrorSeverity_(element, value, fieldType),
                          [element |-> element], value)
                  EXCEPT !.atEvent = atEvent],
               element)
        ELSE ec
  IN  check(findLtrSubstrings(value) # <<>>,
            findRtlAndFakeRtlSubstrings(value) # <<>>)

checkField_(ec, element, value, fieldType, atEvent) ==
  LET isRtlElement == isRightToLeft(element)
      check(hasLtrText, hasRtlText) ==
        IF hasLtrText # hasRtlText /\ isRtlElement # hasRtlText
        THEN addError(ec,
               [BidiError("Undeclared "
                            \o (IF isRtlElement THEN "LTR" ELSE "RTL")
                            \o " " \o fieldType,
                          getErrorSeverity_(element, value, fieldType),
                          [element |-> element], value)
                  EXCEPT !.atEvent = atEvent],
               element)
        ELSE ec
  IN  check(findLtrSubstrings(value) # <<>>,
            findRtlAndFakeRtlSubstrings(value) # <<>>)

checkFileInput_(ec, element, atEvent) ==
  IF isRightToLeft(element)
  THEN addError(ec,
         [BidiError("File input not LTR", 2, [element |-> element], <<>>)
            EXCEPT !.atEvent = atEvent],
         element)
  ELSE ec

RECURSIVE checkFields(_, _, _, _)
\* the calls of checkField_ for the fields of an element, in their order,
\* up to an exception of addError
checkFields(ec, element, fields, atEvent) ==
  IF fields = <<>> \/ ec.thrown THEN ec
  ELSE checkFields(checkField_(ec, element, fields[1].value,
                               fields[1].fieldType, atEvent),
                   element, Tail(fields), atEvent)

\* checkElement_, which handleStartTag_ calls with the node of the walker:
\* the title is checked, then the one field that the nodeName and the type
\* select, or the direction of a file input
checkElement_(ec, element, atEvent) ==
  LET attributes == dom[element].attributes
      nodeName == dom[element].nodeName
      field(fieldType, value) == [fieldType |-> fieldType, value |-> value]
      title == IF attributes.title # <<>>
               THEN <<field("title text", attributes.title)>> ELSE <<>>
      other ==
        IF nodeName = "INPUT"
        THEN IF attributes.type \in {"text", "search"}
             THEN <<field("input value", attributes.value)>>
             ELSE IF attributes.type = "image"
             THEN <<field("alt text", attributes.alt)>>
             ELSE IF attributes.type \in {"button", "reset", "submit"}
             THEN <<field("button label", attributes.value)>>
             ELSE <<>>
        ELSE IF nodeName = "IMG" THEN <<field("alt text", attributes.alt)>>
        ELSE IF nodeName = "TEXTAREA"
        THEN <<field("textarea value", attributes.value)>>
        ELSE <<>>
      fileInput(fc) ==
        IF ~fc.thrown /\ nodeName = "INPUT" /\ attributes.type = "file"
        THEN checkFileInput_(fc, element, atEvent)
        ELSE fc
  IN  fileInput(checkFields(ec, element, title \o other, atEvent))

----------------------------------------------------------------------------
(* bidichecker.OverallDirectionalityDetector *)

\* handleEvent
handleEvent(ec, shouldBeRtl, element, nowRtl, atEvent) ==
  IF shouldBeRtl # nowRtl
  THEN addError(ec,
         [BidiError(IF shouldBeRtl THEN "Overall directionality not RTL"
                    ELSE "Overall directionality not LTR",
                    1, [element |-> element], <<>>)
            EXCEPT !.atEvent = atEvent],
         0)
  ELSE ec

----------------------------------------------------------------------------
(* The steps of DomWalker.go: one action per call of next_, by the kind of *)
(* position the iterator arrives at, with the listeners' handlers run in   *)
(* the order in which Scanner.runDetectors_ registered them.               *)

\* The OverallDirectionalityDetector hears the first START_TAG event
\* before the other detectors, the UndeclaredFieldDetector (of revision 2)
\* before the SpilloverDetector.  goog.events removes a listener of listenOnce
\* when it fires the event at it, before it calls the handler or after the
\* handler has returned, by its version: a handler that throws leaves either.
nextStartTag ==
  /\ pc = "walking"
  /\ LET it == nextDisplayableNode_(nodeIter_)
     IN  /\ ~it.stop
         /\ isStartTag(it)
         /\ LET element == it.node
                isDeclared == startIsDeclared(element, isDeclaredStack_,
                                              isRtlStack_)
                declaredStack == Append(isDeclaredStack_, isDeclared)
                rtlStack == Append(isRtlStack_, isRightToLeft(element))
                blockStack == startBlockStack(element, blockStack_)
                overall ==
                  IF isListening(doc_, "DomWalker", "StartTag",
                                 "OverallDirectionalityDetector")
                  THEN handleEvent(Collector(errors_, addErrorLog, "lowest"),
                                   expectedDir_ = "RTL", element,
                                   inRtl(rtlStack), Len(events) + 1)
                  ELSE Collector(errors_, addErrorLog, "lowest")
                fields(ec) ==
                  IF ~ec.thrown
                     /\ isListening(doc_, "DomWalker", "StartTag",
                                    "UndeclaredFieldDetector")
                  THEN checkElement_(ec, element, Len(events) + 1)
                  ELSE ec
                detector(ec) ==
                  IF ec.thrown THEN SpillState(candidate_, textNodes_, ec)
                  ELSE handleStartTag_(
                         SpillState(candidate_, textNodes_, ec), element,
                         getCurrentBlock(blockStack))
            IN  \E oc \in {overall} : \E fc \in {fields(oc)} :
                \E sd \in {detector(fc)} :
                /\ nodeIter_' = it
                /\ node_' = element
                /\ isDeclaredStack_' = declaredStack
                /\ isRtlStack_' = rtlStack
                /\ frames_' = IF isFrame(element) THEN Append(frames_, element)
                              ELSE frames_
                /\ blockStack_' = blockStack
                /\ events' = Append(events,
                     WalkerEvent("StartTag", element, rtlStack, declaredStack,
                       blockStack,
                       StackDepths(isRtlStack_, isDeclaredStack_, blockStack_),
                       StackDepths(rtlStack, declaredStack, blockStack)))
                /\ candidate_' = sd.candidate_
                /\ textNodes_' = sd.textNodes_
                /\ errors_' = sd.ec.errors_
                /\ addErrorLog' = sd.ec.log
                /\ pc' = IF sd.ec.thrown THEN "thrown" ELSE pc
                /\ listeners_' \in
                     {fireListeners(listeners_, doc_, "DomWalker",
                                    "StartTag")}
                     \cup (IF oc.thrown THEN {listeners_} ELSE {})
                /\ UNCHANGED <<dom, chunks, chunk_, chunkEvents, scanVars>>

nextEndTag ==
  /\ pc = "walking"
  /\ LET it == nextDisplayableNode_(nodeIter_)
     IN  /\ ~it.stop
         /\ isEndTag(it)
         /\ LET element == it.node
                sd == handleEndTag_(
                        SpillState(candidate_, textNodes_,
                          Collector(errors_, addErrorLog, "lowest")), element,
                        getCurrentBlock(blockStack_), inRtl(isRtlStack_),
                        parentInRtl(isRtlStack_))
                blockStack == endBlockStack(element, blockStack_)
            IN  /\ nodeIter_' = it
                /\ node_' = element
                /\ events' = Append(events,
                     WalkerEvent("EndTag", element, isRtlStack_,
                       isDeclaredStack_, blockStack_,
                       StackDepths(isRtlStack_, isDeclaredStack_, blockStack_),
                       StackDepths(Pop(isRtlStack_), Pop(isDeclaredStack_),
                                   blockStack)))
                /\ isRtlStack_' = Pop(isRtlStack_)
                /\ isDeclaredStack_' = Pop(isDeclaredStack_)
                /\ blockStack_' = blockStack
                /\ candidate_' = sd.candidate_
                /\ textNodes_' = sd.textNodes_
                /\ UNCHANGED <<dom, pc, frames_, chunks, chunk_, chunkEvents,
                               errors_, addErrorLog, listeners_, scanVars>>

\* a position that is neither a start tag nor an end tag: a TEXT_NODE event
\* for a text node, nothing for any other node.  The DirChunkWalker hears
\* the event first; an exception of a listener ends the dispatch and go.
nextOtherNode ==
  /\ pc = "walking"
  /\ LET it == nextDisplayableNode_(nodeIter_)
     IN  /\ ~it.stop
         /\ ~isStartTag(it) /\ ~isEndTag(it)
         /\ nodeIter_' = it
         /\ node_' = it.node
         /\ IF dom[it.node].nodeType = "TEXT"
            THEN \E pick \in BinarySearchPicks :
                 LET node == it.node
                     atEvent == Len(events) + 1
                     chunkWalker ==
                       ChunkHandleTextNode_(
                         ChunkState(chunks, chunk_, chunkEvents,
                           Collector(errors_, addErrorLog, pick)), node,
                         inRtl(isRtlStack_), getCurrentBlock(blockStack_),
                         inDeclaredDir(isDeclaredStack_), atEvent)
                     detector(cs) ==
                       IF cs.ec.thrown
                       THEN SpillState(candidate_, textNodes_, cs.ec)
                       ELSE SpillHandleTextNode_(
                              SpillState(candidate_, textNodes_, cs.ec),
                              node, inRtl(isRtlStack_),
                              inDeclaredDir(isDeclaredStack_), atEvent)
                 IN  \E cs \in {chunkWalker} : \E sd \in {detector(cs)} :
                     /\ events' = Append(events,
                          WalkerEvent("TextNode", node, isRtlStack_,
                            isDeclaredStack_, blockStack_,
                            StackDepths(isRtlStack_, isDeclaredStack_,
                                        blockStack_),
                            StackDepths(isRtlStack_, isDeclaredStack_,
                                        blockStack_)))
                     /\ chunks' = cs.chunks
                     /\ chunk_' = cs.chunk_
                     /\ chunkEvents' = cs.chunkEvents
                     /\ candidate_' = sd.candidate_
                     /\ textNodes_' = sd.textNodes_
                     /\ errors_' = sd.ec.errors_
                     /\ addErrorLog' = sd.ec.log
                     /\ pc' = IF sd.ec.thrown THEN "thrown" ELSE pc
            ELSE UNCHANGED <<events, chunks, chunk_, chunkEvents, candidate_,
                             textNodes_, errors_, addErrorLog, pc>>
         /\ UNCHANGED <<dom, isRtlStack_, isDeclaredStack_, blockStack_,
                        frames_, listeners_, scanVars>>

\* next_ throws StopIteration: go dispatches END_OF_DOM and returns, unless
\* a listener of the last DIR_CHUNK event throws
goEndOfDom ==
  /\ pc = "walking"
  /\ LET it == nextDisplayableNode_(nodeIter_)
     IN  /\ it.stop
         /\ \E pick \in BinarySearchPicks :
            LET atEvent == Len(events) + 1
                chunkWalker ==
                  handleEndOfDom_(
                    ChunkState(chunks, chunk_, chunkEvents,
                      Collector(errors_, addErrorLog, pick)), atEvent)
            IN  \E cs \in {chunkWalker} :
                /\ nodeIter_' = it
                /\ pc' = IF cs.ec.thrown THEN "thrown" ELSE "done"
                /\ events' = Append(events,
                     WalkerEvent("EndOfDom", node_, isRtlStack_,
                       isDeclaredStack_, blockStack_,
                       StackDepths(isRtlStack_, isDeclaredStack_, blockStack_),
                       StackDepths(isRtlStack_, isDeclaredStack_, blockStack_)))
                /\ chunks' = cs.chunks
                /\ chunk_' = cs.chunk_
                /\ chunkEvents' = cs.chunkEvents
                /\ errors_' = cs.ec.errors_
                /\ addErrorLog' = cs.ec.log
                /\ listeners_' \in
                     IF cs.ec.thrown
                     THEN {listeners_,
                           listeners_
                             \ {Listener(doc_, "DomWalker", "EndOfDom",
                                          "DirChunkWalker", TRUE)}}
                     ELSE {endOfDomListeners(listeners_, doc_)}
                /\ UNCHANGED <<dom, node_, isRtlStack_, isDeclaredStack_,
                               blockStack_, frames_, candidate_, textNodes_,
                               scanVars>>

Next ==
  \/ nextStartTag
  \/ nextEndTag
  \/ nextOtherNode
  \/ goEndOfDom

----------------------------------------------------------------------------
(* The steps of Scanner.scanDomRecursively_ around runDetectors_.  An      *)
(* activation is in scanStack once runDetectors_ has returned its frames;  *)
(* i is the (1-based) index of the frame its loop is at, expectedDir its   *)
(* parameter of this name, which the loop assigns to, and scannedWith the  *)
(* value of the parameter at the call, with which the document was scanned.*)

Activation(doc, newFrames) ==
  [doc |-> doc, newFrames |-> newFrames, i |-> 1, expectedDir |-> expectedDir_,
   scannedWith |-> expectedDir_]

\* the activation whose loop is running, and the frame it is at
TopActivation == scanStack[Len(scanStack)]

CurrentFrame ==
  ElementOf(TopActivation.doc, TopActivation.newFrames[TopActivation.i])

\* goog.dom.getFrameContentDocument(frame).body: the document whose root it
\* is, 0 when the access throws
getFrameContentDocument(frame) ==
  LET docs == {d \in 1 .. Len(page) : page[d].host = frame}
  IN  IF docs = {} THEN 0 ELSE CHOOSE d \in docs : TRUE

FrameEvent(type) == [type |-> type, frames |-> frameStack_]

\* what the steps of the scanner leave alone in the walker and the detectors
walkerVars == <<nodeIter_, node_, isRtlStack_, isDeclaredStack_, blockStack_,
                frames_, events, chunks, chunk_, chunkEvents, candidate_,
                textNodes_, expectedDir_, listeners_>>

collectorVars == <<errorVars, highlightVars, utilsVars, opt_filtersJson, errors_, filters_, throwOnError_,
                   addErrorLog, revision_>>

\* runDetectorsReturn whose loop takes the frames from the last to the first
runDetectorsReturn_lastFrameFirst ==
  /\ pc = "done"
  /\ scanStack' = Append(scanStack,
                         Activation(doc_, [k \in 1 .. Len(frames_) |->
                                             frames_[Len(frames_) + 1 - k]]))
  /\ pc' = "looping"
  /\ UNCHANGED <<page, doc_, dom, walkerVars, collectorVars, frameStack_,
                 frameEvents>>

\* go has returned: runDetectors_ returns getFrames() and the loop begins
runDetectorsReturn ==
  /\ pc = "done"
  /\ scanStack' = Append(scanStack, Activation(doc_, frames_))
  /\ pc' = "looping"
  /\ UNCHANGED <<page, doc_, dom, walkerVars, collectorVars, frameStack_,
                 frameEvents>>

\* frameStack.push(frame): the frame is pushed, then ENTERING_FRAME is sent
pushFrame ==
  /\ pc = "looping"
  /\ TopActivation.i <= Len(TopActivation.newFrames)
  /\ frameStack_' = Append(frameStack_, CurrentFrame)
  /\ frameEvents' = Append(frameEvents,
                           [type |-> "EnterFrame",
                            frames |-> Append(frameStack_, CurrentFrame)])
  /\ pc' = "pushed"
  /\ UNCHANGED <<page, doc_, dom, walkerVars, collectorVars, scanStack>>

\* the body of the frame's document is reached: scanDomRecursively_ runs
\* runDetectors_ on it with a new DomWalker, DirChunkWalker and detectors
enterFrame ==
  /\ pc = "pushed"
  /\ getFrameContentDocument(CurrentFrame) # 0
  /\ LET d == getFrameContentDocument(CurrentFrame)
         expectedDir ==
           IF page[CurrentFrame.doc].dom[CurrentFrame.node].nodeName = "IFRAME"
           THEN "UNKNOWN" ELSE TopActivation.expectedDir
     IN  /\ doc_' = d
         /\ dom' = page[d].dom
         /\ isRtlStack_' = <<page[d].dom[1].rtl>>
         /\ expectedDir_' = expectedDir
         /\ scanStack' = [scanStack EXCEPT
                            ![Len(scanStack)].expectedDir = expectedDir]
         /\ listeners_' = listeners_
                            \cup runDetectors_(d, expectedDir, revision_)
  /\ nodeIter_' = NewTagIterator(1)
  /\ node_' = 0
  /\ isDeclaredStack_' = <<>>
  /\ blockStack_' = <<1>>
  /\ frames_' = <<>>
  /\ pc' = "walking"
  /\ events' = <<>>
  /\ chunks' = <<chunks[NullId]>>
  /\ chunk_' = NullId
  /\ chunkEvents' = <<>>
  /\ candidate_' = 0
  /\ textNodes_' = <<>>
  /\ UNCHANGED <<page, collectorVars, frameStack_, frameEvents>>

\* accessFails that lets the exception leave scan
accessFails_uncaught ==
  /\ pc = "pushed"
  /\ getFrameContentDocument(CurrentFrame) = 0
  /\ pc' = "failed"
  /\ UNCHANGED <<page, doc_, dom, walkerVars, collectorVars, frameStack_,
                 frameEvents, scanStack>>

\* the access to the frame's document throws: the catch block swallows it
accessFails ==
  /\ pc = "pushed"
  /\ getFrameContentDocument(CurrentFrame) = 0
  /\ pc' = "popping"
  /\ UNCHANGED <<page, doc_, dom, walkerVars, collectorVars, frameStack_,
                 frameEvents, scanStack>>

\* an exception leaves runDetectors_ on the document of a frame: the catch
\* block of the activation that entered the frame swallows it
catchException ==
  /\ pc = "thrown"
  /\ scanStack # <<>>
  /\ pc' = "popping"
  /\ doc_' = TopActivation.doc
  /\ dom' = page[TopActivation.doc].dom
  /\ UNCHANGED <<page, walkerVars, collectorVars, frameStack_, frameEvents,
                 scanStack>>

\* popFrame that leaves the frame on the stack
popFrame_noPop ==
  /\ pc = "popping"
  /\ frameEvents' = Append(frameEvents, FrameEvent("ExitFrame"))
  /\ scanStack' = [scanStack EXCEPT ![Len(scanStack)].i = @ + 1]
  /\ pc' = "looping"
  /\ UNCHANGED <<page, doc_, dom, walkerVars, collectorVars, frameStack_>>

\* frameStack.pop(): EXITING_FRAME is sent, then the frame is popped; the
\* loop goes on to the next frame
popFrame ==
  /\ pc = "popping"
  /\ frameEvents' = Append(frameEvents, FrameEvent("ExitFrame"))
  /\ frameStack_' = Pop(frameStack_)
  /\ scanStack' = [scanStack EXCEPT ![Len(scanStack)].i = @ + 1]
  /\ pc' = "looping"
  /\ UNCHANGED <<page, doc_, dom, walkerVars, collectorVars>>

\* the loop is over: scanDomRecursively_ returns, to the try block of the
\* activation that entered the frame or, for the first document, to scan,
\* which signals the end of the frames
loopEnd ==
  /\ pc = "looping"
  /\ TopActivation.i > Len(TopActivation.newFrames)
  /\ scanStack' = Pop(scanStack)
  /\ IF Len(scanStack) = 1
     THEN /\ pc' = "returned"
          /\ frameEvents' = Append(frameEvents, FrameEvent("EndFrames"))
          /\ UNCHANGED <<doc_, dom>>
     ELSE /\ pc' = "popping"
          /\ doc_' = scanStack[Len(scanStack) - 1].doc
          /\ dom' = page[scanStack[Len(scanStack) - 1].doc].dom
          /\ UNCHANGED frameEvents
  /\ UNCHANGED <<page, walkerVars, collectorVars, frameStack_>>

\* an exception leaves runDetectors_ on the first document: no catch block
\* is around it, it leaves scan
scanThrows ==
  /\ pc = "thrown"
  /\ scanStack = <<>>
  /\ pc' = "failed"
  /\ UNCHANGED <<page, doc_, dom, walkerVars, collectorVars, frameStack_,
                 frameEvents, scanStack>>

NextScan ==
  \/ nextStartTag
  \/ nextEndTag
  \/ nextOtherNode
  \/ goEndOfDom
  \/ runDetectorsReturn
  \/ pushFrame
  \/ enterFrame
  \/ accessFails
  \/ catchException
  \/ popFrame
  \/ loopEnd
  \/ scanThrows

\* The state of a check of the first document of the page.  at "reading",
\* checkPageToJson has been called and the filters are to be read.  at
\* "walking", Scanner.scan has signalled the start of the frames and
\* Scanner.runDetectors_ has built the DomWalker, the DirChunkWalker and the
\* detectors for the root element.
InitCheck(docs, filtersJson, filters, throwOnError, revision, expectedDir, at) ==
  /\ opt_filtersJson = filtersJson
  /\ page = docs
  /\ expectedDir_ = expectedDir
  /\ listeners_ = IF at = "walking"
                  THEN runDetectors_(1, expectedDir, revision) ELSE {}
  /\ doc_ = 1
  /\ filters_ = filters
  /\ throwOnError_ = throwOnError
  /\ addErrorLog = <<>>
  /\ revision_ = revision
  /\ frameStack_ = <<>>
  /\ frameEvents = <<[type |-> "StartFrames", frames |-> <<>>]>>
  /\ scanStack = <<>>
  /\ dom = docs[1].dom
  /\ nodeIter_ = NewTagIterator(1)
  /\ node_ = 0
  /\ isRtlStack_ = <<docs[1].dom[1].rtl>>
  /\ isDeclaredStack_ = <<>>
  /\ blockStack_ = <<1>>
  /\ frames_ = <<>>
  /\ pc = at
  /\ events = <<>>
  /\ chunks = <<NullDirChunk>>
  /\ chunk_ = NullId
  /\ chunkEvents = <<>>
  /\ candidate_ = 0
  /\ textNodes_ = <<>>
  /\ errors_ = <<>>
  /\ regLastIndex = [reg \in GlobalRegs |-> 0]
  /\ finderCall = NoFinderCall

\* A caller of bidichecker.utils calls a substring finder on str.
callFinder(finder, str) ==
  /\ pc = "idle"
  /\ \E run \in {execLoop(finder, str, regLastIndex[regOf(finder)])} :
       /\ regLastIndex' = [regLastIndex EXCEPT ![regOf(finder)] = run.lastIndex]
       /\ finderCall' = [finder |-> finder, str |-> str,
                         results |-> run.results]
  /\ UNCHANGED <<opt_filtersJson, page, doc_, dom, nodeIter_, node_,
                 isRtlStack_, isDeclaredStack_, blockStack_, frames_, pc,
                 events, chunks, chunk_, chunkEvents, candidate_, textNodes_,
                 errors_, filters_, throwOnError_, addErrorLog, revision_,
                 expectedDir_, listeners_, frameStack_, frameEvents,
                 scanStack, errorVars, highlightVars>>

\* no JSON text of errors
NoErrorsJson == [from |-> "none", text |-> <<>>, of |-> <<>>]

NotRebuilt == [done |-> FALSE, throws |-> FALSE, errors |-> <<>>]

\* The bidichecker.Error class as the script is loaded, and the JSON text
\* of errors that the caller has.
InitErrors(json) ==
  /\ nextErrorId_ = 0
  /\ highlightableAreas_ = NoAreas
  /\ errorObjects = <<>>
  /\ errorsJson = json
  /\ rebuilt = NotRebuilt

\* no area, on a page without the nodes of one
NoArea == [kind |-> "none"]

ElementStyle(attribute, sheets) == [attribute |-> attribute, sheets |-> sheets]

\* The area the caller holds and the part of the page it is for, as the
\* page was loaded.
InitHighlight(highlightableArea, style, nodes) ==
  /\ area = highlightableArea
  /\ elementStyle = style
  /\ pageNodes = nodes
  /\ loaded = [elementStyle |-> style, pageNodes |-> nodes]
  /\ calls = <<>>

InitCall(docs, filtersJson, filters, throwOnError, revision, expectedDir, at) ==
  /\ InitCheck(docs, filtersJson, filters, throwOnError, revision,
               expectedDir, at)
  /\ InitErrors(NoErrorsJson)
  /\ InitHighlight(NoArea, ElementStyle("", "transparent"), <<>>)

\* Scanner.scan with filters that were constructed by the caller
InitScanOf(docs, filters, throwOnError, revision, expectedDir) ==
  InitCall(docs, NoFiltersJson, filters, throwOnError, revision, expectedDir,
           "walking")

\* bidichecker.checkPageToJson: the filters are read, and checkPage runs the
\* scan with them unless reading them has thrown
checkPageToJson ==
  /\ pc = "reading"
  /\ \E read \in {readFiltersFromJson(opt_filtersJson)} :
       IF read.throws
       THEN /\ pc' = "raised"
            /\ UNCHANGED <<filters_, listeners_>>
       ELSE /\ pc' = "walking"
            /\ filters_' = read.value
            /\ listeners_' = runDetectors_(1, expectedDir_, revision_)
  /\ UNCHANGED <<opt_filtersJson, page, doc_, dom, nodeIter_, node_,
                 isRtlStack_, isDeclaredStack_, blockStack_, frames_, events,
                 chunks, chunk_, chunkEvents, candidate_, textNodes_, errors_,
                 throwOnError_, addErrorLog, revision_, expectedDir_,
                 frameStack_, frameEvents, scanStack, errorVars,
                 highlightVars, utilsVars>>

NextFilter ==
  \/ checkPageToJson
  \/ Next

----------------------------------------------------------------------------
(* The calls of bidichecker.Error by a caller that holds Error objects, at *)
(* a time when no check runs: pc is "idle".  An entry of errorObjects is   *)
(* the object this with the area it was made with and whether              *)
(* clearHighlightableAreas has been called since.  The caller makes its    *)
(* errors, then serializes them, then rebuilds them from the text.         *)

checkVars == <<opt_filtersJson, page, doc_, dom, nodeIter_, node_,
               isRtlStack_, isDeclaredStack_, blockStack_, frames_, pc,
               events, chunks, chunk_, chunkEvents, candidate_, textNodes_,
               errors_, filters_, throwOnError_, addErrorLog, revision_,
               expectedDir_, listeners_, frameStack_, frameEvents, scanStack>>

ErrorType(name) == JString(<<name>>)

ErrorInput(type, severity, highlightableArea, atText) ==
  [type |-> type, severity |-> severity,
   highlightableArea |-> highlightableArea, atText |-> atText]

\* the arguments of the constructor: texts with the characters that
\* toString and the JSON text escape, a text longer than toString shows, no
\* text, no area, no severity
ErrorInputs ==
  {ErrorInput(ErrorType("Undeclared RTL text"), JNumber(3),
              HighlightableArea("text"), JString(<<"alef", "'", "\"">>)),
   ErrorInput(ErrorType("Overall directionality not RTL"), JNumber(1),
              HighlightableArea("element"), JUndefined),
   ErrorInput(ErrorType("Undeclared RTL text"), JNumber(4), JUndefined,
              JString([i \in 1 .. (AT_TEXT_TRUNCATION_LENGTH + 1) |-> "a"])),
   ErrorInput(ErrorType("Undeclared RTL text"), JUndefined,
              HighlightableArea("text"), JUndefined)}

\* new bidichecker.Error(type, severity, highlightableArea, atText)
newError ==
  /\ pc = "idle"
  /\ errorsJson.from = "none"
  /\ Len(errorObjects) < MaxErrors
  /\ \E input \in ErrorInputs :
       \E made \in {Error(input.type, input.severity,
                          input.highlightableArea, input.atText)} :
         IF made.throws THEN UNCHANGED errorVars
         ELSE /\ nextErrorId_' = nextErrorId_ + 1
              /\ highlightableAreas_'
                   = setHighlightableArea(highlightableAreas_, made.this,
                                          made.highlightableArea)
              /\ errorObjects'
                   = Append(errorObjects,
                            [this |-> made.this,
                             area |-> made.highlightableArea,
                             cleared |-> FALSE])
              /\ UNCHANGED <<errorsJson, rebuilt>>
  /\ UNCHANGED <<checkVars, highlightVars, utilsVars>>

\* error[field] = text, for a field the object does not have yet
setField(field, text) ==
  /\ pc = "idle"
  /\ errorsJson.from = "none"
  /\ \E i \in DOMAIN errorObjects :
       /\ field \notin DOMAIN errorObjects[i].this
       /\ errorObjects'
            = [errorObjects EXCEPT ![i].this = (field :> JString(text)) @@ @]
  /\ UNCHANGED <<nextErrorId_, highlightableAreas_, errorsJson, rebuilt>>
  /\ UNCHANGED <<checkVars, highlightVars, utilsVars>>

setPrecededByText == setField("precededByText", <<"!", "\\">>)

setFollowedByText == setField("followedByText", <<"RLO", "a">>)

setLocationDescription ==
  setField("locationDescription", <<"<div dir='rtl'>">>)

\* bidichecker.Error.clearHighlightableAreas
clearHighlightableAreas ==
  /\ pc = "idle"
  /\ errorsJson.from = "none"
  /\ highlightableAreas_' = NoAreas
  /\ nextErrorId_' = 0
  /\ errorObjects' = [i \in DOMAIN errorObjects |->
                        [errorObjects[i] EXCEPT !.cleared = TRUE]]
  /\ UNCHANGED <<errorsJson, rebuilt>>
  /\ UNCHANGED <<checkVars, highlightVars, utilsVars>>

\* bidichecker.Error.serialize of the objects the caller holds
serialize ==
  /\ pc = "idle"
  /\ errorsJson.from = "none"
  /\ \E errors \in {[i \in DOMAIN errorObjects |->
                        [errorObjects[i] EXCEPT
                           !.this = ("asString" :> toString(@)) @@ @]]} :
       /\ errorObjects' = errors
       /\ errorsJson' = [from |-> "serialize",
                         text |-> [i \in DOMAIN errors |->
                                     serializeObject(errors[i].this)],
                         of |-> errors]
  /\ UNCHANGED <<nextErrorId_, highlightableAreas_, rebuilt>>
  /\ UNCHANGED <<checkVars, highlightVars, utilsVars>>

\* bidichecker.runGuiFromJson, up to the call of runGui: goog.array.map
\* ends with the first exception
runGuiFromJson ==
  /\ pc = "idle"
  /\ errorsJson.from # "none"
  /\ ~rebuilt.done
  /\ \E made \in {[i \in DOMAIN errorsJson.text |->
                      Error(parseObject(errorsJson.text[i]), JUndefined,
                            JUndefined, JUndefined)]} :
       rebuilt' = IF \E i \in DOMAIN made : made[i].throws
                  THEN [done |-> TRUE, throws |-> TRUE, errors |-> <<>>]
                  ELSE [done |-> TRUE, throws |-> FALSE,
                        errors |-> [i \in DOMAIN made |-> made[i].this]]
  /\ UNCHANGED <<nextErrorId_, highlightableAreas_, errorObjects, errorsJson>>
  /\ UNCHANGED <<checkVars, highlightVars, utilsVars>>

NextError ==
  \/ newError
  \/ setPrecededByText
  \/ setFollowedByText
  \/ setLocationDescription
  \/ clearHighlightableAreas
  \/ serialize
  \/ runGuiFromJson

----------------------------------------------------------------------------
(* bidichecker.HighlightableElement and bidichecker.HighlightableText.  A  *)
(* text node of the page is its id with its data, a text node that         *)
(* goog.dom.createDom makes has the id 0; the node that replaces a text    *)
(* node is the span made for it, with its child nodes.                     *)

\* new bidichecker.HighlightableElement(element)
HighlightableElement == [kind |-> "element", oldBackgroundColor_ |-> "null"]

\* new bidichecker.HighlightableText(nodes, startOffset, endOffset)
HighlightableText(nodes, startOffset, endOffset) ==
  [kind |-> "text", nodes_ |-> nodes, startOffset_ |-> startOffset,
   endOffset_ |-> endOffset, newNodes_ |-> <<>>]

Text(id, data) == [nodeType |-> "TEXT", id |-> id, data |-> data]

\* goog.style.getBackgroundColor: the colour in effect, which is that of the
\* style attribute when it has one
getBackgroundColor(style) ==
  IF style.attribute # "" THEN style.attribute ELSE style.sheets

\* goog.style.setStyle(element, 'background-color', value)
setStyle(style, value) == [style EXCEPT !.attribute = value]

\* goog.dom.replaceNode: nothing is done for an old node without a parent
replaceNode(nodes, newNode, oldNode) ==
  [i \in DOMAIN nodes |-> IF nodes[i] = oldNode THEN newNode ELSE nodes[i]]

\* String.prototype.substring, positions counted from 0
substring(data, start, end) == SubSeq(data, start + 1, end)

\* highlightNodeText_: the span that replaces the node, with the text before
\* the highlighted span, the highlighted span and the text after it
highlightNodeText_(node, opt_start, opt_end) ==
  LET start == opt_start
      end == IF opt_end # 0 THEN opt_end ELSE Len(node.data)
      created(data) == Text(0, data)
      before == IF start > 0
                THEN <<created(substring(node.data, 0, start))>> ELSE <<>>
      highlightSpan ==
        [nodeType |-> "ELEMENT", nodeName |-> "SPAN", highlighted |-> TRUE,
         children |-> <<created(substring(node.data, start, end))>>]
      after == IF end < Len(node.data)
               THEN <<created(substring(node.data, end, Len(node.data)))>>
               ELSE <<>>
  IN  [nodeType |-> "ELEMENT", nodeName |-> "SPAN", highlighted |-> FALSE,
       children |-> before \o <<highlightSpan>> \o after]

RECURSIVE replaceNodes(_, _, _)
\* the loops of replaceNode over the nodes of the area
replaceNodes(nodes, newNodes, oldNodes) ==
  IF newNodes = <<>> THEN nodes
  ELSE replaceNodes(replaceNode(nodes, Head(newNodes), Head(oldNodes)),
                    Tail(newNodes), Tail(oldNodes))

highlightOnPage ==
  /\ pc = "idle"
  /\ area.kind # "none"
  /\ Len(calls) < MaxCalls
  /\ calls' = Append(calls, "highlightOnPage")
  /\ IF area.kind = "element"
     THEN /\ area' = [area EXCEPT !.oldBackgroundColor_ =
                                   getBackgroundColor(elementStyle)]
          /\ elementStyle' = setStyle(elementStyle, "yellow")
          /\ UNCHANGED pageNodes
     ELSE /\ UNCHANGED elementStyle
          /\ IF Len(area.newNodes_) = 0
             THEN \E newNodes \in
                      {[i \in DOMAIN area.nodes_ |->
                          highlightNodeText_(
                            area.nodes_[i],
                            IF i = 1 THEN area.startOffset_ ELSE 0,
                            IF i = Len(area.nodes_) THEN area.endOffset_
                            ELSE Len(area.nodes_[i].data))]} :
                    /\ area' = [area EXCEPT !.newNodes_ = newNodes]
                    /\ pageNodes'
                         = replaceNodes(pageNodes, newNodes, area.nodes_)
             ELSE /\ pageNodes' = replaceNodes(pageNodes, area.newNodes_,
                                                area.nodes_)
                  /\ UNCHANGED area
  /\ UNCHANGED <<loaded, checkVars, errorVars, utilsVars>>

unhighlightOnPage ==
  /\ pc = "idle"
  /\ area.kind # "none"
  /\ Len(calls) < MaxCalls
  /\ calls' = Append(calls, "unhighlightOnPage")
  /\ IF area.kind = "element"
     THEN /\ elementStyle' = IF area.oldBackgroundColor_ # "null"
                             THEN setStyle(elementStyle,
                                           area.oldBackgroundColor_)
                             ELSE elementStyle
          /\ UNCHANGED pageNodes
     ELSE /\ pageNodes' = IF Len(area.newNodes_) # 0
                           THEN replaceNodes(pageNodes, area.nodes_,
                                             area.newNodes_)
                           ELSE pageNodes
          /\ UNCHANGED elementStyle
  /\ UNCHANGED <<area, loaded, checkVars, errorVars, utilsVars>>

NextHighlight ==
  \/ highlightOnPage
  \/ unhighlightOnPage

\* Scanner.scan with no expected direction
InitPage(docs, filters, throwOnError, revision) ==
  InitScanOf(docs, filters, throwOnError, revision, "UNKNOWN")

\* The scan of document d alone, from a root element whose parent is the
\* BODY of the page: no filters, no throw-on-error, revision 1.
InitFor(d) ==
  InitPage(<<Document(d, "BODY", ElementOf(0, 0))>>, <<>>, FALSE, 1)

----------------------------------------------------------------------------
(* Documents *)

\* root elements: a block-level DIV, an inline SPAN, by direction
WalkRoots ==
  {Element("DIV", "block", "visible", "", FALSE),
   Element("DIV", "block", "visible", "rtl", TRUE),
   Element("SPAN", "inline", "visible", "", FALSE)}

WalkKinds ==
  {Element("DIV", "block", "visible", "", FALSE),
   Element("SPAN", "inline", "visible", "ltr", FALSE),
   Element("SPAN", "inline", "visible", "", TRUE),
   Element("SPAN", "none", "visible", "", FALSE),
   Element("IFRAME", "inline", "visible", "", FALSE),
   TextNode(<<"a">>),
   CommentNode}

\* every document of at most MaxNodes nodes over the given kinds of nodes
InitOver(roots, kinds) ==
  \E n \in 1 .. MaxNodes : \E shape \in Shapes(n) : \E root \in roots :
    \E ks \in [2 .. n -> kinds] :
      /\ WellFormed(DomOf(shape, root, ks))
      /\ InitFor(DomOf(shape, root, ks))

Init == InitOver(WalkRoots, WalkKinds)

Spec == Init /\ [][Next]_vars

\* Documents for the chunk aggregator: texts of 0, 1 and 2 characters under
\* elements that keep the context, change the direction or open a block.
ChunkRoots == {Element("DIV", "block", "visible", "", FALSE)}

ChunkKinds ==
  {Element("SPAN", "inline", "visible", "", FALSE),
   Element("SPAN", "inline", "visible", "rtl", TRUE),
   Element("DIV", "block", "visible", "", FALSE),
   TextNode(<<>>),
   TextNode(<<"a">>),
   TextNode(<<"alef", "!">>)}

InitChunk == InitOver(ChunkRoots, ChunkKinds)

SpecChunk == InitChunk /\ [][Next]_vars

\* Documents for the spillover detector: inline elements with a dir
\* attribute that change the direction or keep it, a block, a frame that is
\* displayed as a block (with and without a dir attribute), and texts that
\* are a number, a letter or a space.
SpillRoots == {Element("DIV", "block", "visible", "", FALSE)}

SpillKinds ==
  {Element("SPAN", "inline", "visible", "rtl", TRUE),
   Element("SPAN", "inline", "visible", "ltr", FALSE),
   Element("DIV", "block", "visible", "", FALSE),
   Element("IFRAME", "block", "visible", "", FALSE),
   Element("IFRAME", "block", "visible", "rtl", TRUE),
   TextNode(<<"1">>),
   TextNode(<<"a">>),
   TextNode(<<" ">>)}

InitSpill == InitOver(SpillRoots, SpillKinds)

SpecSpill == InitSpill /\ [][Next]_vars

\* Documents for the spillover detector's text handler: an element with a
\* dir attribute that changes the direction, an element that changes it by
\* its style alone, and texts: a number after a neutral and before a letter,
\* a right-to-left mark, a space, and a number after a character (LRE) that
\* is neither neutral nor strong.
SpillTextKinds ==
  {Element("SPAN", "inline", "visible", "rtl", TRUE),
   Element("SPAN", "inline", "visible", "", TRUE),
   TextNode(<<"!", "1", "a">>),
   TextNode(<<"RLM">>),
   TextNode(<<" ">>),
   TextNode(<<"LRE", "1">>)}

InitSpillText == InitOver(SpillRoots, SpillTextKinds)

SpecSpillText == InitSpillText /\ [][Next]_vars

\* Documents with elements that are not displayable, by their tag, their
\* display style or their visibility style, each of which would change the
\* walker's stacks if it were not skipped.
HiddenKinds ==
  {Element("DIV", "none", "visible", "rtl", TRUE),
   Element("SCRIPT", "block", "visible", "", TRUE),
   Element("STYLE", "block", "visible", "rtl", TRUE),
   Element("NOSCRIPT", "inline", "visible", "", TRUE),
   Element("DIV", "block", "hidden", "", TRUE),
   Element("SPAN", "inline", "collapse", "rtl", TRUE),
   Element("DIV", "block", "visible", "", FALSE),
   TextNode(<<"a">>)}

InitHidden == InitOver(SpillRoots, HiddenKinds)

SpecHidden == InitHidden /\ [][Next]_vars

\* Documents for the UndeclaredTextDetector: one text, of every string of at
\* most MaxTextLen characters over letters, marks, neutrals and the RLO and
\* PDF controls and of some longer strings with fake RTL runs, directly in
\* a root of either direction or in a span with a dir attribute; and two
\* adjacent text nodes, the first one empty or a neutral.  Both revisions.
TextChars == {"a", "LRM", "alef", "RLM", "!", " ", "RLO", "PDF"}

RECURSIVE TextsUpTo(_)
TextsUpTo(n) ==
  IF n = 0 THEN {<<>>}
  ELSE LET shorter == TextsUpTo(n - 1)
       IN  shorter \cup {Append(t, c) : t \in {u \in shorter : Len(u) = n - 1},
                                        c \in TextChars}

LongTexts ==
  {<<"RLO", "a", "PDF", "!", "RLO", "a", "!", "a", "PDF", " ">>,
   <<"!", " ", "RLO", "a", "PDF", " ", "!", "alef", "RLM">>,
   <<"a", "RLO", "a", "PDF", "PDF", "RLO", "a", "alef", "PDF">>,
   <<"LRM", "!", "LRM", "alef", "a", " ", "a", "RLM", "1", " ", "a">>}

UndeclaredDocs ==
  LET roots == {Element("DIV", "block", "visible", "", FALSE),
                Element("DIV", "block", "visible", "rtl", TRUE)}
      spans == {Element("SPAN", "inline", "visible", "ltr", FALSE),
                Element("SPAN", "inline", "visible", "rtl", TRUE)}
      at(node, depth) == [node EXCEPT !.depth = depth]
  IN  {<<root, at(TextNode(t), 1)>> :
         root \in roots, t \in TextsUpTo(MaxTextLen) \cup LongTexts}
      \cup {<<roots1, at(span, 1), at(TextNode(t), 2)>> :
              roots1 \in {Element("DIV", "block", "visible", "", FALSE)},
              span \in spans, t \in TextsUpTo(MaxTextLen) \cup LongTexts}
      \cup {<<root, at(TextNode(t1), 1), at(TextNode(t2), 1)>> :
              root \in roots, t1 \in {<<>>, <<"!">>},
              t2 \in {<<"a">>, <<"alef", " ", "a">>}}

Revisions == {1, 2}

InitUndeclared ==
  \E d \in UndeclaredDocs : \E revision \in Revisions :
    InitPage(<<Document(d, "BODY", ElementOf(0, 0))>>, <<>>, FALSE, revision)

SpecUndeclared == InitUndeclared /\ [][Next]_vars

\* Pages for the Scanner: a first document that is the BODY of the page,
\* with two IFRAMEs and with no text, a text in a SPAN or a text directly in
\* the BODY; each frame cannot be accessed or holds a document with a text
\* in a SPAN, a text directly in its BODY, or a text in a SPAN and a further
\* IFRAME (which cannot be accessed or holds a text in a SPAN).  The texts
\* hold two undeclared RTL runs, of severity 3 and 2.  With and without
\* throw-on-error; with no filter, a severity filter and a type filter.
ScanText == <<"alef", "a", "alef", "!">>

ScanTree(kinds, depths) ==
  [i \in 1 .. Len(kinds) |-> [kinds[i] EXCEPT !.depth = depths[i]]]

ScanBody == Element("BODY", "block", "visible", "", FALSE)

ScanSpan == Element("SPAN", "inline", "visible", "", FALSE)

ScanFrame == Element("IFRAME", "inline", "visible", "", FALSE)

\* the first documents; their IFRAMEs are their last two nodes
ScanTops ==
  {ScanTree(<<ScanBody, ScanFrame, ScanFrame>>, <<0, 1, 1>>),
   ScanTree(<<ScanBody, ScanSpan, TextNode(ScanText), ScanFrame, ScanFrame>>,
            <<0, 1, 2, 1, 1>>),
   ScanTree(<<ScanBody, TextNode(ScanText), ScanFrame, ScanFrame>>,
            <<0, 1, 1, 1>>)}

FrameContents == {"none", "span", "body", "nested", "nestedNone"}

\* the documents of a frame with the given content, hosted by the element
\* host, when they are added to a page of n documents
FrameDocs(content, host, n) ==
  LET inSpan == ScanTree(<<ScanBody, ScanSpan, TextNode(ScanText)>>,
                         <<0, 1, 2>>)
      inBody == ScanTree(<<ScanBody, TextNode(ScanText)>>, <<0, 1>>)
      withFrame == ScanTree(<<ScanBody, ScanSpan, TextNode(ScanText),
                              ScanFrame>>, <<0, 1, 2, 1>>)
  IN  CASE content = "none" -> <<>>
        [] content = "span" -> <<Document(inSpan, "HTML", host)>>
        [] content = "body" -> <<Document(inBody, "HTML", host)>>
        [] content = "nestedNone" -> <<Document(withFrame, "HTML", host)>>
        [] content = "nested" ->
             <<Document(withFrame, "HTML", host),
               Document(inSpan, "HTML", ElementOf(n + 1, 4))>>

ScanPage(top, first, second) ==
  LET docs1 == <<Document(top, "HTML", ElementOf(0, 0))>>
      docs2 == docs1 \o FrameDocs(first, ElementOf(1, Len(top) - 1), 1)
  IN  docs2 \o FrameDocs(second, ElementOf(1, Len(top)), Len(docs2))

ScanFilters ==
  {<<>>, <<SeverityFilter_(3)>>,
   <<TypeFilter_("Undeclared LTR text"), SeverityFilter_(2)>>}

InitScan ==
  \E top \in ScanTops : \E first \in FrameContents :
    \E second \in FrameContents : \E filters \in ScanFilters :
      \E throwOnError \in BOOLEAN :
        InitPage(ScanPage(top, first, second), filters, throwOnError, 1)

SpecScan == InitScan /\ [][NextScan]_vars

\* Scans with an expected direction, of pages whose first document holds a
\* FRAME or IFRAME or both: the root elements by direction, one of them not
\* displayable.
OverallRoots ==
  {Element("BODY", "block", "visible", "", FALSE),
   Element("BODY", "block", "visible", "rtl", TRUE),
   Element("BODY", "none", "visible", "", FALSE)}

OverallFrames ==
  {Element("FRAME", "inline", "visible", "", FALSE),
   Element("IFRAME", "inline", "visible", "", FALSE)}

ExpectedDirs == {"LTR", "RTL", "UNKNOWN"}

\* a document: some text in a SPAN, then the frames
OverallDoc(root, text, frames) ==
  ScanTree(<<root, ScanSpan, TextNode(text)>> \o frames,
           <<0, 1, 2>> \o [i \in 1 .. Len(frames) |-> 1])

\* the page: the first document holds LTR text, the content document of
\* its first frame has the root given and text of both directions, the one
\* of its second frame, if any, cannot be accessed
OverallPage(top, frames, inFrame) ==
  <<Document(OverallDoc(top, <<"a">>, frames), "HTML", ElementOf(0, 0)),
    Document(OverallDoc(inFrame, ScanText, <<>>), "HTML", ElementOf(1, 4))>>

InitOverall ==
  \E top \in OverallRoots : \E inFrame \in OverallRoots :
    \E first \in OverallFrames : \E second \in OverallFrames :
      \E frames \in {<<first>>, <<first, second>>} :
        \E expectedDir \in ExpectedDirs : \E throwOnError \in BOOLEAN :
          \E revision \in Revisions :
            InitScanOf(OverallPage(top, frames, inFrame), <<>>, throwOnError,
                       revision, expectedDir)

SpecOverall == InitOverall /\ [][NextScan]_vars

\* Scans with an expected direction of pages whose first document holds two
\* frames, each a FRAME or an IFRAME: the first one can be accessed, the
\* second one can or cannot; their documents have the root given and text
\* of both directions.
SiblingsPage(top, frames, inFrame, secondToo) ==
  OverallPage(top, frames, inFrame)
    \o (IF secondToo
        THEN <<Document(OverallDoc(inFrame, ScanText, <<>>), "HTML",
                        ElementOf(1, 5))>>
        ELSE <<>>)

InitSiblings ==
  \E top \in OverallRoots : \E inFrame \in OverallRoots :
    \E first \in OverallFrames : \E second \in OverallFrames :
      \E secondToo \in BOOLEAN : \E expectedDir \in ExpectedDirs :
        \E throwOnError \in BOOLEAN : \E revision \in Revisions :
          InitScanOf(SiblingsPage(top, <<first, second>>, inFrame, secondToo),
                     <<>>, throwOnError, revision, expectedDir)

SpecSiblings == InitSiblings /\ [][NextScan]_vars

\* Documents for the UndeclaredFieldDetector (revision 2): in a root of
\* either direction an element with a checked field, or an INPUT of a type
\* that is not checked, and a text.  The value of the field is every string
\* of at most MaxTextLen characters over a letter of each direction, a
\* neutral and the RLO and PDF controls, and some longer strings; the
\* element has the direction of the root or the other one, and no
\* declaration, a dir attribute or a direction in its style attribute.
FieldChars == {"a", "alef", "!", "RLO", "PDF"}

RECURSIVE ValuesUpTo(_)
ValuesUpTo(n) ==
  IF n = 0 THEN {<<>>}
  ELSE LET shorter == ValuesUpTo(n - 1)
       IN  shorter \cup {Append(t, c) : t \in {u \in shorter : Len(u) = n - 1},
                                        c \in FieldChars}

FieldValues == ValuesUpTo(MaxTextLen) \cup LongTexts

Field(nodeName, type, title, value, alt) ==
  [Element(nodeName, "inline", "visible", "", FALSE)
     EXCEPT !.attributes = [title |-> title, type |-> type, value |-> value,
                            alt |-> alt, styleDirection |-> ""]]

FieldElements ==
  UNION {{Field("SPAN", "", v, <<>>, <<>>),
          Field("INPUT", "text", <<>>, v, <<>>),
          Field("INPUT", "image", <<>>, <<>>, v),
          Field("INPUT", "submit", <<>>, v, <<>>),
          Field("INPUT", "button", <<"!", "alef">>, v, <<>>),
          Field("INPUT", "file", <<>>, v, <<>>),
          Field("INPUT", "hidden", <<>>, v, <<>>),
          Field("IMG", "", <<>>, <<>>, v),
          Field("TEXTAREA", "", <<>>, v, <<>>)} : v \in FieldValues}

\* the dir attribute and the direction of the style attribute
FieldDeclarations == {<<"", "">>, <<"ltr", "">>, <<"", "rtl">>}

FieldDoc(root, element, declaration, rtl) ==
  ScanTree(<<root,
             [element EXCEPT !.dir = declaration[1], !.rtl = rtl,
                             !.attributes.styleDirection = declaration[2]],
             TextNode(<<"a">>)>>,
           <<0, 1, 1>>)

InitField ==
  \E root \in {Element("DIV", "block", "visible", "", FALSE),
                Element("DIV", "block", "visible", "rtl", TRUE)} :
    \E element \in FieldElements : \E declaration \in FieldDeclarations :
      \E rtl \in BOOLEAN :
        InitScanOf(<<Document(FieldDoc(root, element, declaration, rtl),
                              "BODY", ElementOf(0, 0))>>,
                   <<>>, FALSE, 2, "UNKNOWN")

SpecField == InitField /\ [][Next]_vars

\* Bare filters for checkPageToJson: the filters on the severity and on the
\* type, well-formed and not, under AND, OR and NOT to the depth MaxDepth.
BareFilter(opcode, fields) == JObject([opcode |-> JString(opcode)] @@ fields)

BareSeverity(n) == BareFilter("SEVERITY", [severityThreshold |-> JNumber(n)])

BareType(t) == BareFilter("TYPE", [type |-> JString(t)])

TitleError == "Undeclared RTL title text"

AltError == "Undeclared RTL alt text"

BareLeaves ==
  {BareSeverity(2), BareSeverity(3), BareType(TitleError), BareType(AltError),
   BareFilter("XOR", [type |-> JString(TitleError)]),
   BareFilter("SEVERITY", [type |-> JString(TitleError)]),
   BareFilter("SEVERITY", [severityThreshold |-> JString("3")]),
   BareFilter("TYPE", [type |-> JNumber(3)]),
   JObject([type |-> JString(TitleError)]),
   JObject([opcode |-> JNumber(3), type |-> JString(TitleError)]),
   JString("TYPE"),
   JArray,
   JNull}

\* the filters that have the bare filter f as a sub-filter
BareAbove(f) ==
  {BareFilter("AND", [filter1 |-> f, filter2 |-> BareSeverity(3)]),
   BareFilter("AND", [filter1 |-> BareSeverity(3), filter2 |-> f]),
   BareFilter("OR", [filter1 |-> f, filter2 |-> BareSeverity(3)]),
   BareFilter("OR", [filter1 |-> f]),
   BareFilter("NOT", [filter |-> f])}

RECURSIVE BareFilters(_)
BareFilters(depth) ==
  IF depth = 0 THEN BareLeaves
  ELSE LET below == BareFilters(depth - 1)
       IN  below \cup UNION {BareAbove(f) : f \in below}

FilterLists ==
  {NoFiltersJson, FiltersJson(<<>>)}
    \cup {FiltersJson(<<f>>) : f \in BareFilters(MaxDepth)}
    \cup {FiltersJson(<<BareType(AltError), f>>) : f \in BareFilters(MaxDepth)}

\* documents with fields whose errors have the severities 1 to 4
FilterDocs ==
  {ScanTree(<<Element("DIV", "block", "visible", "", FALSE),
              Field("SPAN", "", <<"alef">>, <<>>, <<>>),
              Field("SPAN", "", <<"!", "alef">>, <<>>, <<>>),
              Field("IMG", "", <<>>, <<>>, <<"alef">>),
              Field("INPUT", "text", <<>>, <<"alef">>, <<>>)>>,
            <<0, 1, 1, 1, 1>>),
   ScanTree(<<Element("DIV", "block", "visible", "", FALSE),
              [Field("SPAN", "", <<"alef">>, <<>>, <<>>) EXCEPT !.dir = "ltr"],
              Field("IMG", "", <<>>, <<>>, <<"!", "alef">>),
              TextNode(<<"a">>)>>,
            <<0, 1, 1, 1>>)}

InitFilter ==
  \E d \in FilterDocs : \E filtersJson \in FilterLists :
    InitCall(<<Document(d, "BODY", ElementOf(0, 0))>>, filtersJson, <<>>,
             FALSE, 2, "UNKNOWN", "reading")

SpecFilter == InitFilter /\ [][NextFilter]_vars

\* JSON texts of errors that the caller has from elsewhere: a record with
\* every required field, and records without one of them
Member(name, value) == [name |-> name, value |-> serializeValue(value)]

CallerRecords ==
  LET members == <<Member("id", JNumber(0)),
                   Member("type", ErrorType("Undeclared RTL text")),
                   Member("severity", JNumber(2)),
                   Member("atText", JString(<<"alef">>))>>
      without(k) == SelectSeq(members, LAMBDA m : m # members[k])
  IN  {members, without(1), without(2), without(3), without(4),
       [members EXCEPT ![2] = Member("type", JNull)]}

CallerJson ==
  {[from |-> "caller", text |-> <<record>>, of |-> <<>>] :
     record \in CallerRecords}

InitError ==
  /\ InitCheck(<<Document(<<Element("DIV", "block", "visible", "", FALSE)>>,
                           "BODY", ElementOf(0, 0))>>,
               NoFiltersJson, <<>>, FALSE, 1, "UNKNOWN", "idle")
  /\ \E json \in {NoErrorsJson} \cup CallerJson : InitErrors(json)
  /\ InitHighlight(NoArea, ElementStyle("", "transparent"), <<>>)

SpecError == InitError /\ [][NextError]_vars

\* Elements with and without a background colour of their own, yellow
\* among the colours, for the HighlightableElement.
ElementStyles ==
  {ElementStyle(attribute, sheets) :
     attribute \in {"", "red", "yellow"},
     sheets \in {"transparent", "white", "yellow"}}

\* the texts of the nodes of an area
NodeData ==
  {t \in ValuesUpTo(MaxTextLen) :
     t # <<>> /\ \A i \in DOMAIN t : t[i] \in {"a", "alef"}}

\* One or two text nodes between two others, with every start offset in the
\* first and end offset in the last, for the HighlightableText.
TextAreas ==
  UNION {{[nodes |-> nodes, startOffset |-> startOffset,
           endOffset |-> endOffset] :
            startOffset \in 0 .. (Len(nodes[1].data) - 1),
            endOffset \in 0 .. Len(nodes[Len(nodes)].data)} :
         nodes \in {<<Text(2, first)>> : first \in NodeData}
                     \cup {<<Text(2, first), Text(3, <<"a", "!">>)>> :
                             first \in NodeData}}

InitHighlightOf(highlightableArea, style, nodes) ==
  /\ InitCheck(<<Document(<<Element("DIV", "block", "visible", "", FALSE)>>,
                           "BODY", ElementOf(0, 0))>>,
               NoFiltersJson, <<>>, FALSE, 1, "UNKNOWN", "idle")
  /\ InitErrors(NoErrorsJson)
  /\ InitHighlight(highlightableArea, style, nodes)

InitHighlights ==
  \/ \E style \in ElementStyles :
       InitHighlightOf(HighlightableElement, style, <<>>)
  \/ \E text \in TextAreas :
       InitHighlightOf(
         HighlightableText(text.nodes, text.startOffset, text.endOffset),
         ElementStyle("", "transparent"),
         <<Text(1, <<"a">>)>> \o text.nodes \o <<Text(4, <<"a">>)>>)

SpecHighlight == InitHighlights /\ [][NextHighlight]_vars

\* go runs its loop without a pause: weak fairness of Next, with the
\* condition under which a step of the walk is possible, pc = "walking",
\* written out (no step of the walk is possible once go has returned or
\* thrown).
\* The substring finders, called in any order: first on any text of the
\* undeclared-text documents, then on the same text again or on a long one.
FinderTexts ==
  IF finderCall.finder = "none" THEN TextsUpTo(MaxTextLen) \cup LongTexts
  ELSE {finderCall.str} \cup LongTexts

NextFinders ==
  \/ \E str \in FinderTexts : callFinder("findRtlSubstrings", str)
  \/ \E str \in FinderTexts : callFinder("findRtlAndFakeRtlSubstrings", str)
  \/ \E str \in FinderTexts : callFinder("findLtrSubstrings", str)

InitFinders ==
  InitHighlightOf(NoArea, ElementStyle("", "transparent"), <<>>)

SpecFinders == InitFinders /\ [][NextFinders]_vars

GoRuns == []<>(pc # "walking") \/ []<><<Next>>_vars

\* One call of go that runs to its end.
SpecGo == Init /\ [][Next]_vars /\ GoRuns

----------------------------------------------------------------------------
(* Properties of the DomWalker's event stream *)

EventIndexes == 1 .. Len(events)

TagEventTypes == {"StartTag", "EndTag", "TextNode"}

StartsOf(element) ==
  {i \in EventIndexes : events[i].type = "StartTag" /\ events[i].node = element}

EndsOf(element) ==
  {i \in EventIndexes : events[i].type = "EndTag" /\ events[i].node = element}

\* the last node of the subtree of n
LastInSubtree(n) ==
  CHOOSE m \in n .. Len(dom) :
    /\ \A q \in (n + 1) .. m : dom[q].depth > dom[n].depth
    /\ (m = Len(dom) \/ dom[m + 1].depth <= dom[n].depth)

\* The place of a tag or text position in the document: a start tag or a text
\* comes before everything in and after the node; an end tag comes after the
\* subtree of its element and after the end tags of the elements in it.
DocPos(type, n) ==
  IF type = "EndTag"
  THEN (2 * LastInSubtree(n) + 1) * (Len(dom) + 1) + (Len(dom) - dom[n].depth)
  ELSE 2 * n * (Len(dom) + 1)

\* C1: the events are dispatched in document order and are well nested: a
\* START_TAG of an element is followed by exactly one END_TAG of that element
\* (by the end of go), every event of a descendant lies between the two, and
\* the START_TAG/END_TAG pairs of two elements never interleave.
C1_EventsWellNested ==
  /\ \A i, j \in EventIndexes :
       (i < j /\ events[j].type \in TagEventTypes)
         => /\ events[i].type \in TagEventTypes
            /\ DocPos(events[i].type, events[i].node)
                 < DocPos(events[j].type, events[j].node)
  /\ \A e \in Nodes :
       /\ Cardinality(StartsOf(e)) <= 1
       /\ Cardinality(EndsOf(e)) <= 1
       /\ \A j \in EndsOf(e) : \E i \in StartsOf(e) : i < j
       /\ (pc = "done" /\ StartsOf(e) # {}) => EndsOf(e) # {}
       /\ \A k \in EventIndexes :
            (events[k].type \in TagEventTypes /\ IsAncestor(e, events[k].node))
              => /\ \E i \in StartsOf(e) : i < k
                 /\ \A j \in EndsOf(e) : k < j
  /\ \A e, f \in Nodes :
       \A se \in StartsOf(e), sf \in StartsOf(f), ee \in EndsOf(e) :
         (se < sf /\ sf < ee) => \E ef \in EndsOf(f) : ef < ee

\* a finished walk in which an element below the root, with a text inside
\* it, was started and ended, and some subtree was skipped
C1_Witness ==
  /\ pc = "done"
  /\ \E e \in Nodes, k \in EventIndexes :
       /\ dom[e].depth > 0
       /\ StartsOf(e) # {} /\ EndsOf(e) # {}
       /\ events[k].type = "TextNode" /\ IsAncestor(e, events[k].node)
  /\ \E n \in Nodes : dom[n].nodeType = "ELEMENT" /\ StartsOf(n) = {}

\* C2: for every element traversed, the root included, the depths of the
\* three stacks after the element's END_TAG step equal their depths before
\* its START_TAG step.
C2_StackDepthsRestored ==
  \A e \in Nodes : \A i \in StartsOf(e), j \in EndsOf(e) :
    events[j].after = events[i].before

\* C3: when inDeclaredDir() is true at the START_TAG of an element, it is
\* true at every event of every descendant of that element.
C3_DeclaredLatch ==
  \A i, k \in EventIndexes :
    (/\ events[i].type = "StartTag"
     /\ events[i].inDeclaredDir
     /\ events[k].type \in TagEventTypes
     /\ IsAncestor(events[i].node, events[k].node))
      => events[k].inDeclaredDir

\* a declared element holds an element that neither has a dir attribute nor
\* changes the direction, and a text inside that one was visited
C3_Witness ==
  \E i, j, k \in EventIndexes :
    /\ events[i].type = "StartTag" /\ events[i].inDeclaredDir
    /\ events[j].type = "StartTag"
    /\ parentNode(events[j].node) = events[i].node
    /\ dom[events[j].node].dir = ""
    /\ dom[events[j].node].rtl = dom[events[i].node].rtl
    /\ events[k].type = "TextNode"
    /\ parentNode(events[k].node) = events[j].node

\* an element below the root with a dir attribute and no block-level child
DeclaresByDir(a) ==
  /\ a # 1
  /\ dom[a].nodeType = "ELEMENT"
  /\ dom[a].dir # ""
  /\ ~\E c \in childNodes(a) : dom[c].nodeType = "ELEMENT" /\ isBlockElement(c)

\* an element below the root whose direction differs from its parent's
ChangesDirection(a) ==
  /\ a # 1
  /\ dom[a].nodeType = "ELEMENT"
  /\ dom[a].rtl # dom[parentNode(a)].rtl

----------------------------------------------------------------------------
(* Properties of the DirChunkWalker *)

ChunkEventIndexes == 1 .. Len(chunkEvents)

\* the events the DirChunkWalker dispatches in the step s -> s'
NewChunkEvents == SubSeq(chunkEvents', Len(chunkEvents) + 1, Len(chunkEvents'))

\* the step dispatches a DomWalker event of the given type
Dispatches(type) ==
  /\ Len(events') = Len(events) + 1
  /\ events'[Len(events')].type = type

\* the TEXT_NODE event of a text node
TextEventOf(node) ==
  CHOOSE k \in EventIndexes :
    events[k].type = "TextNode" /\ events[k].node = node

C5_TextStep ==
  Dispatches("TextNode") =>
    LET ev == events'[Len(events')]
        old == chunks[chunk_]
        sameContext == /\ ev.inRtl = old.isRtl_
                       /\ ev.currentBlock = old.block_
                       /\ ev.inDeclaredDir = old.isDeclared_
    IN  IF sameContext
        THEN /\ NewChunkEvents = <<>>
             /\ chunk_' = chunk_
             /\ getText(chunks'[chunk_']) = getText(old) \o dom[ev.node].data
        ELSE /\ IF Len(getText(old)) > 0
                THEN /\ Len(NewChunkEvents) = 1
                     /\ NewChunkEvents[1].type = "DirChunk"
                     /\ NewChunkEvents[1].chunk = chunk_
                     /\ NewChunkEvents[1].seen = old
                ELSE NewChunkEvents = <<>>
             /\ chunk_' \notin 1 .. Len(chunks)
             /\ getText(chunks'[chunk_']) = dom[ev.node].data
             /\ chunks'[chunk_'].isRtl_ = ev.inRtl
             /\ chunks'[chunk_'].block_ = ev.currentBlock
             /\ chunks'[chunk_'].isDeclared_ = ev.inDeclaredDir

C5_Dispatched ==
  \A c \in ChunkEventIndexes :
    chunkEvents[c].type = "DirChunk" =>
      LET chunk == chunkEvents[c].seen
      IN  /\ Len(getText(chunk)) > 0
          /\ \A i \in 1 .. Len(chunk.nodePositions_) :
               LET ev == events[TextEventOf(chunk.nodePositions_[i].node)]
               IN  /\ ev.inRtl = chunk.isRtl_
                   /\ ev.currentBlock = chunk.block_
                   /\ ev.inDeclaredDir = chunk.isDeclared_

\* C5: on a TEXT_NODE event in another context than the current chunk's the
\* DirChunkWalker dispatches one DIR_CHUNK for the current chunk if it holds
\* a character, none if it is empty, and starts a new chunk with the text and
\* the context; in the same context it dispatches nothing and appends the
\* text.  No dispatched chunk is empty, and every piece of a dispatched chunk
\* was visited in the chunk's context.
C5_ChunkOnContextChange == [][C5_TextStep]_vars /\ []C5_Dispatched

\* a text in a new context made the DirChunkWalker dispatch the chunk of an
\* earlier text and start a new chunk
C5_Witness ==
  \E c \in ChunkEventIndexes :
    /\ chunkEvents[c].type = "DirChunk"
    /\ events[chunkEvents[c].atEvent].type = "TextNode"
    /\ chunk_ # chunkEvents[c].chunk
    /\ chunks[chunk_].nodePositions_[1].node = events[chunkEvents[c].atEvent].node

C6_EndStep ==
  Dispatches("EndOfDom") =>
    LET old == chunks[chunk_]
    IN  IF Len(getText(old)) > 0
        THEN /\ Len(NewChunkEvents) = 2
             /\ NewChunkEvents[1].type = "DirChunk"
             /\ NewChunkEvents[1].chunk = chunk_
             /\ NewChunkEvents[1].seen = old
             /\ NewChunkEvents[2].type = "EndOfChunks"
        ELSE /\ Len(NewChunkEvents) = 1
             /\ NewChunkEvents[1].type = "EndOfChunks"

C6_EndOfChunksLast ==
  /\ \A c \in ChunkEventIndexes :
       chunkEvents[c].type = "EndOfChunks" => c = Len(chunkEvents)
  /\ pc = "done" =>
       /\ chunkEvents # <<>>
       /\ chunkEvents[Len(chunkEvents)].type = "EndOfChunks"

\* C6: on END_OF_DOM the DirChunkWalker dispatches DIR_CHUNK for the current
\* chunk exactly when it is not empty, then END_OF_CHUNKS once; END_OF_CHUNKS
\* is the last event it ever dispatches.
C6_EndOfDomFlush == [][C6_EndStep]_vars /\ []C6_EndOfChunksLast

\* the walk is over and the last chunk, started by an earlier text, was
\* dispatched with END_OF_DOM
C6_Witness ==
  /\ pc = "done"
  /\ Len(chunkEvents) >= 2
  /\ chunkEvents[Len(chunkEvents) - 1].type = "DirChunk"
  /\ events[chunkEvents[Len(chunkEvents) - 1].atEvent].type = "EndOfDom"

\* the characters of piece i of the chunk are at offsets from PieceStart
PieceStart(chunk, i) ==
  Len(Concat(SubSeq(chunk.textPieces_, 1, i - 1)))

\* the text node whose data holds character p (from 0) of the chunk text;
\* piece i of a chunk is the data of the i-th node added to it
HolderOf(chunk, p) ==
  LET i == CHOOSE i \in 1 .. Len(chunk.textPieces_) :
             /\ PieceStart(chunk, i) <= p
             /\ p < PieceStart(chunk, i) + Len(chunk.textPieces_[i])
  IN  chunk.nodePositions_[i].node

\* C7: in every dispatched chunk the offsets of the node index increase
\* strictly from 0, and findNodeAtPosition(p) is, for every p in
\* [0, text length), the text node that holds character p.
C7_NodeIndexStrictlyIncreasing ==
  \A c \in ChunkEventIndexes :
    chunkEvents[c].type = "DirChunk" =>
      LET chunk == chunkEvents[c].seen
          index == chunk.nodePositions_
      IN  /\ index[1].charPos = 0
          /\ \A i \in 1 .. (Len(index) - 1) :
               index[i].charPos < index[i + 1].charPos
          /\ \A p \in 0 .. (chunk.textLength_ - 1) :
               findNodeAtPosition(chunk, p) = {HolderOf(chunk, p)}

\* C8: a chunk dispatched in a DIR_CHUNK event is never changed afterwards.
C8_DispatchedChunkFrozen ==
  \A c \in ChunkEventIndexes :
    chunkEvents[c].type = "DirChunk"
      => chunks[chunkEvents[c].chunk] = chunkEvents[c].seen

\* a chunk was dispatched, a later text went to a new chunk, and the walk
\* went on to its end
C8_Witness ==
  \E c \in ChunkEventIndexes :
    /\ chunkEvents[c].type = "DirChunk"
    /\ chunk_ # chunkEvents[c].chunk
    /\ ~isEmpty(chunks[chunk_])
    /\ pc = "done"

----------------------------------------------------------------------------
(* Properties of the SpilloverDetector *)

\* the errors of the SpilloverDetector
IsSpillover(error) ==
  error.type \in {"Declared LTR spillover to number",
                  "Declared RTL spillover to number"}

SpilloverErrors(errors) == SelectSeq(errors, IsSpillover)

\* C9: every spillover error is reported at a text node that follows the
\* END_TAG of an inline element with a dir attribute whose closing changed
\* the direction, with, between that END_TAG and the text node, no START_TAG
\* or END_TAG of an element with a dir attribute, no start or end of a
\* block-level element, and no text with a strongly-directional character.
C9_OnlyNeutralsBeforeNumber ==
  \A r \in 1 .. Len(errors_) : IsSpillover(errors_[r]) =>
    LET k == errors_[r].atEvent
    IN  /\ events[k].type = "TextNode"
        /\ \E j \in 1 .. (k - 1) :
             /\ events[j].type = "EndTag"
             /\ dom[events[j].node].dir # ""
             /\ ~isBlockElement(events[j].node)
             /\ events[j].inRtl # events[j].parentInRtl
             /\ \A m \in (j + 1) .. (k - 1) :
                  IF events[m].type = "TextNode"
                  THEN ~hasDirectionalCharacter(dom[events[m].node].data)
                  ELSE /\ dom[events[m].node].dir = ""
                       /\ ~isBlockElement(events[m].node)

C10_StartStep ==
  Dispatches("StartTag") =>
    LET ev == events'[Len(events')]
    IN  IF dom[ev.node].dir # "" \/ ev.node = ev.currentBlock
        THEN candidate_' = 0
        ELSE UNCHANGED <<candidate_, textNodes_>>

C10_EndStep ==
  Dispatches("EndTag") =>
    LET ev == events'[Len(events')]
    IN  IF ev.node = ev.currentBlock THEN candidate_' = 0
        ELSE IF dom[ev.node].dir # "" /\ ~isBlockElement(ev.node)
        THEN IF ev.inRtl = ev.parentInRtl THEN candidate_' = 0
             ELSE candidate_' = ev.node /\ textNodes_' = <<>>
        ELSE UNCHANGED <<candidate_, textNodes_>>

\* C10: a START_TAG of an element with a dir attribute, or of the new current
\* block, clears the candidate; an END_TAG of the current block clears it; an
\* END_TAG of an element that is no block and has a dir attribute clears it
\* when the direction inside equals the parent's, and else makes the element
\* the candidate with an empty text buffer; any other START_TAG or END_TAG
\* leaves the candidate and the buffer as they are.
C10_TagTransitions == [][C10_StartStep /\ C10_EndStep]_vars

\* the text starts with a digit preceded only by neutral characters
StartsWithNumber(data) ==
  \E i \in 1 .. Len(data) :
    /\ data[i] \in digitChars
    /\ \A j \in 1 .. (i - 1) : data[j] \in neutralChars_

\* the text holds a strongly-directional character, LRM and RLM among them
HasStrong(data) ==
  \E i \in 1 .. Len(data) : data[i] \in ltrChars_ \cup rtlChars_

C11_TextStep ==
  Dispatches("TextNode") =>
    LET node == events'[Len(events')].node
        data == dom[node].data
        before == SpilloverErrors(errors_)
        after == SpilloverErrors(errors_')
    IN  IF candidate_ = 0
        THEN /\ UNCHANGED <<candidate_, textNodes_>>
             /\ after = before
        ELSE /\ textNodes_' = Append(textNodes_, node)
             /\ IF StartsWithNumber(data)
                THEN /\ Len(after) = Len(before) + 1
                     /\ SubSeq(after, 1, Len(before)) = before
                     /\ after[Len(after)] = errors_'[Len(errors_')]
                     /\ candidate_' = 0
                ELSE /\ after = before
                     /\ candidate_' = IF HasStrong(data) THEN 0 ELSE candidate_

\* C11: on a TEXT_NODE event the SpilloverDetector does nothing without a
\* candidate; with one it appends the node to the buffer and then reports
\* one error and clears the candidate if the text starts with a digit after
\* neutrals only (whatever follows the number), else clears the candidate
\* without an error if the text holds a strong character (LRM and RLM
\* included), else keeps the candidate.
C11_TextTransitions == [][C11_TextStep]_vars

\* an error was reported at a text whose number is followed by a letter,
\* after a text that kept the candidate
C11_Witness ==
  \E r \in 1 .. Len(errors_) :
    LET k == errors_[r].atEvent
    IN  /\ IsSpillover(errors_[r])
        /\ HasStrong(dom[events[k].node].data)
        /\ Len(errors_[r].highlightableArea.nodes) = 2
        /\ candidate_ = 0

\* C12: a spillover error has the type 'Declared X spillover to number' with
\* X the direction inside the candidate element, and severity 4 when the
\* text node with the number is in a declared context, else 2.
C12_TypeAndSeverity ==
  \A r \in 1 .. Len(errors_) : IsSpillover(errors_[r]) =>
    LET k == errors_[r].atEvent
    IN  /\ errors_[r].type =
             (IF isRightToLeft(errors_[r].candidate)
              THEN "Declared RTL spillover to number"
              ELSE "Declared LTR spillover to number")
        /\ errors_[r].severity = (IF events[k].inDeclaredDir THEN 4 ELSE 2)

\* an element that is not displayable: a script, style or noscript tag,
\* display:none, or visibility hidden or collapse
NotDisplayable(n) ==
  /\ dom[n].nodeType = "ELEMENT"
  /\ \/ dom[n].nodeName \in {"SCRIPT", "STYLE", "NOSCRIPT"}
     \/ dom[n].display = "none"
     \/ dom[n].visibility \in {"hidden", "collapse"}

\* the elements from the root down to n that the walker enters as blocks
BlocksDownTo(n) ==
  {a \in Nodes : /\ a = n \/ IsAncestor(a, n)
                 /\ dom[a].nodeType = "ELEMENT"
                 /\ isBlockElement(a) /\ ~isFrame(a)}

\* C19: no START_TAG, END_TAG or TEXT_NODE event is dispatched for an element
\* that is not displayable nor for a node inside one, and skipping leaves the
\* stacks as they were: they do not change between two events, and after the
\* START_TAG of an element they hold the element and its ancestors only.
C19_NoEventInHiddenSubtree ==
  /\ \A k \in EventIndexes :
       events[k].type \in TagEventTypes =>
         /\ ~NotDisplayable(events[k].node)
         /\ \A a \in Nodes : IsAncestor(a, events[k].node) => ~NotDisplayable(a)
  /\ \A k \in 1 .. (Len(events) - 1) : events[k + 1].before = events[k].after
  /\ \A k \in EventIndexes :
       events[k].type = "StartTag" =>
         LET e == events[k].node
         IN  /\ events[k].after.isRtl = dom[e].depth + 2
             /\ events[k].after.isDeclared = dom[e].depth + 1
             /\ events[k].after.block = 1 + Cardinality(BlocksDownTo(e))
             /\ events[k].inRtl = isRightToLeft(e)

\* an element that is not displayable and has a child was passed, and an
\* element after it was started
C19_Witness ==
  \E n \in Nodes, k \in EventIndexes :
    /\ NotDisplayable(n)
    /\ firstChild(n) # 0
    /\ events[k].type = "StartTag"
    /\ events[k].node > LastInSubtree(n)

\* the frame elements with a START_TAG event so far, in document order
RECURSIVE FramesStarted(_)
FramesStarted(k) ==
  IF k = 0 THEN <<>>
  ELSE IF events[k].type = "StartTag" /\ isFrame(events[k].node)
  THEN Append(FramesStarted(k - 1), events[k].node)
  ELSE FramesStarted(k - 1)

\* C20: a displayable FRAME or IFRAME is recorded in getFrames() once, in
\* document order; no event is dispatched for a node inside a frame element;
\* a frame element is never the current block.
C20_FramesRecordedNotEntered ==
  /\ frames_ = FramesStarted(Len(events))
  /\ \A i, j \in 1 .. Len(frames_) : i < j => frames_[i] < frames_[j]
  /\ \A k \in EventIndexes :
       events[k].type \in TagEventTypes =>
         /\ \A a \in Nodes : IsAncestor(a, events[k].node) => ~isFrame(a)
         /\ ~(events[k].currentBlock # 0 /\ isFrame(events[k].currentBlock))

----------------------------------------------------------------------------
(* Properties of the UndeclaredTextDetector *)

IsUndeclaredText(error) ==
  error.type \in {"Undeclared LTR text", "Undeclared RTL text"}

\* the errors added by the step
NewErrors == SubSeq(errors_', Len(errors_) + 1, Len(errors_'))

\* positions s..e of str are a run of the class own among characters that
\* are not of the class other and not bidi controls: it starts and ends
\* with a character of own, and no character of own before or after it is
\* joined to it by such characters
IsRun(str, s, e, own, other) ==
  LET breaks(q) == str[q] \in other \cup bidiControlChars
  IN  /\ 1 <= s /\ s <= e /\ e <= Len(str)
      /\ str[s] \in own /\ str[e] \in own
      /\ \A q \in s .. e : ~breaks(q)
      /\ \A q \in 1 .. (s - 1) :
           str[q] \in own => \E b \in q .. s : breaks(b)
      /\ \A q \in (e + 1) .. Len(str) :
           str[q] \in own => \E b \in e .. q : breaks(b)

\* the run consists of the directional mark and neutrals only
OnlyMarks(str, s, e, mark) ==
  \A q \in s .. e : str[q] \in neutralChars_ \cup {mark}

\* the runs of the opposite direction in the text of a chunk, as pairs of
\* their first and last position: in an RTL chunk the LTR runs that are not
\* enclosed by RLO and PDF, in an LTR chunk the RTL runs
OppositeRuns(chunk) ==
  LET str == getText(chunk)
      pairs == (1 .. Len(str)) \X (1 .. Len(str))
  IN  IF chunk.isRtl_
      THEN {p \in pairs :
              /\ IsRun(str, p[1], p[2], ltrChars_, rtlChars_)
              /\ ~OnlyMarks(str, p[1], p[2], "LRM")
              /\ ~(charAt(str, p[1] - 2) = "RLO" /\ charAt(str, p[2]) = "PDF")}
      ELSE {p \in pairs :
              /\ IsRun(str, p[1], p[2], rtlChars_, ltrChars_)
              /\ ~OnlyMarks(str, p[1], p[2], "RLM")}

\* the fake RTL runs the finder of revision 2 returns for an LTR chunk
FakeRtlRuns(chunk) ==
  LET found == findRtlAndFakeRtlSubstrings(getText(chunk))
  IN  IF chunk.isRtl_ \/ revision_ < 2 THEN {}
      ELSE {<<found[i].index + 1, found[i].index + Len(found[i].text)>> :
              i \in {j \in 1 .. Len(found) : found[j].text[1] = "RLO"}}

C13_ChunkStep ==
  LET added == SelectSeq(NewErrors, IsUndeclaredText)
      span(error) == <<error.index + 1, error.index + Len(error.atText)>>
  IN  IF \E i \in 1 .. Len(NewChunkEvents) :
            NewChunkEvents[i].type = "DirChunk"
      THEN LET ev == CHOOSE e \in {NewChunkEvents[i] :
                                     i \in 1 .. Len(NewChunkEvents)} :
                       e.type = "DirChunk"
               str == getText(ev.seen)
           IN  /\ \A i \in 1 .. Len(added) :
                    /\ added[i].type = (IF ev.seen.isRtl_
                                        THEN "Undeclared LTR text"
                                        ELSE "Undeclared RTL text")
                    /\ added[i].chunk = ev.chunk
                    /\ added[i].atText =
                         SubSeq(str, span(added[i])[1], span(added[i])[2])
                    /\ \A j \in 1 .. (i - 1) :
                         span(added[j])[2] < span(added[i])[1]
               /\ {span(added[i]) : i \in 1 .. Len(added)}
                    = OppositeRuns(ev.seen) \cup FakeRtlRuns(ev.seen)
      ELSE added = <<>>

\* C13: at each DIR_CHUNK event the UndeclaredTextDetector adds exactly one
\* error per run of the opposite direction found in the chunk's text that
\* does not consist of the matching mark and neutrals only (the runs the
\* finders find: without the LTR runs enclosed by RLO and PDF, and at
\* revision 2 with the fake RTL runs of an LTR chunk): of the type
\* 'Undeclared LTR text' in an RTL chunk and 'Undeclared RTL text' in an LTR
\* chunk, with atText the run, in increasing order of position; no other
\* undeclared-text error is ever added.
C13_OneErrorPerRun == [][C13_ChunkStep]_vars

\* two runs of one chunk were reported, a run of marks before them was not
C13_Witness ==
  /\ Len(errors_) = 2
  /\ errors_[1].type = "Undeclared LTR text"
  /\ errors_[2].chunk = errors_[1].chunk
  /\ \E q \in 1 .. errors_[1].index :
       getText(chunks[errors_[1].chunk])[q] = "LRM"

\* a visible neutral run ends right before position s of str
VisibleNeutralBefore(str, s) ==
  \E i \in 1 .. (s - 1) :
    /\ str[i] \in nonWhiteNeutralChars_
    /\ \A j \in (i + 1) .. (s - 1) : str[j] \in neutralChars_

\* a visible neutral run starts right after position e of str
VisibleNeutralAfter(str, e) ==
  \E i \in (e + 1) .. Len(str) :
    /\ str[i] \in nonWhiteNeutralChars_
    /\ \A j \in (e + 1) .. (i - 1) : str[j] \in neutralChars_

\* C14: an undeclared-text error has severity 4 when its chunk is in a
\* declared context; otherwise severity 2 when a visible neutral run comes
\* right before or right after the matched run, and 3 when neither does;
\* precededByText and followedByText are set exactly when that visible
\* neutral run exists, whatever the severity.
C14_SeverityAndNeutrals ==
  \A r \in 1 .. Len(errors_) : IsUndeclaredText(errors_[r]) =>
    LET error == errors_[r]
        chunk == chunks[error.chunk]
        str == getText(chunk)
        s == error.index + 1
        e == error.index + Len(error.atText)
    IN  /\ error.severity =
             (IF chunk.isDeclared_ THEN 4
              ELSE IF VisibleNeutralBefore(str, s) \/ VisibleNeutralAfter(str, e)
              THEN 2 ELSE 3)
        /\ chunk.isDeclared_ =
             events[TextEventOf(chunk.nodePositions_[1].node)].inDeclaredDir
        /\ (error.precededByText # NullText) = VisibleNeutralBefore(str, s)
        /\ (error.followedByText # NullText) = VisibleNeutralAfter(str, e)

\* an undeclared run between whitespace only was given severity 3
C14_Witness ==
  \E r \in 1 .. Len(errors_) :
    LET error == errors_[r]
        str == getText(chunks[error.chunk])
    IN  /\ IsUndeclaredText(error)
        /\ error.severity = 3
        /\ charAt(str, error.index - 1) = " "
        /\ charAt(str, error.index + Len(error.atText)) = " "

----------------------------------------------------------------------------
(* Properties of the ErrorCollector and of the Scanner's frame recursion    *)

\* no filter of the list suppresses the error of this addError call
PassesFilters(call) ==
  \A i \in 1 .. Len(filters_) :
    ~isSuppressed(filters_[i], call.error, call.locationElements)

\* the errors of the addError calls that pass the filters, in call order
PassedErrors ==
  LET passed == SelectSeq(addErrorLog, PassesFilters)
  IN  [i \in 1 .. Len(passed) |-> passed[i].error]

\* the addError call threw: by throw-on-error, or while describing the
\* location
Threw(call) ==
  \/ call.outcome = "failed"
  \/ call.outcome = "accepted" /\ throwOnError_

\* C15: the list of errors is the errors of the addError calls that no
\* filter suppresses, in call order and with their location description,
\* and a suppressed error keeps its location description unset.
C15_AcceptedIffNotSuppressed ==
  /\ errors_ = PassedErrors
  /\ \A i \in 1 .. Len(addErrorLog) :
       /\ PassesFilters(addErrorLog[i]) =>
            addErrorLog[i].error.locationDescription # <<>>
       /\ ~PassesFilters(addErrorLog[i]) =>
            addErrorLog[i].error.locationDescription = <<>>

\* C16: with throw-on-error at most one error is collected, collecting it
\* ends the scan with an exception, and a suppressed error raises nothing.
C16_FirstErrorEndsScan ==
  throwOnError_ =>
    /\ Len(errors_) <= 1
    /\ Len(errors_) = 1 => pc \in {"thrown", "failed"}
    /\ pc \in {"thrown", "failed"} =>
         addErrorLog[Len(addErrorLog)].outcome # "suppressed"

\* the chain of frame elements from the first document down to document d
RECURSIVE ChainOf(_)
ChainOf(d) ==
  IF page[d].host.doc = 0 THEN <<>>
  ELSE Append(ChainOf(page[d].host.doc), page[d].host)

\* the frame elements of document d, in document order
FramesOf(d) ==
  LET tree == page[d].dom
      RECURSIVE From(_)
      From(n) ==
        IF n > Len(tree) THEN <<>>
        ELSE (IF tree[n].nodeType = "ELEMENT"
                 /\ tree[n].nodeName \in {"IFRAME", "FRAME"}
              THEN <<ElementOf(d, n)>> ELSE <<>>) \o From(n + 1)
  IN  From(1)

\* frame was pushed on the frame stack below the given chain
Entered(chain, frame) ==
  \E k \in 1 .. Len(frameEvents) :
    /\ frameEvents[k].type = "EnterFrame"
    /\ frameEvents[k].frames = Append(chain, frame)

\* a frame whose document cannot be accessed was pushed
Skipped(frame) ==
  /\ getFrameContentDocument(frame) = 0
  /\ Entered(ChainOf(frame.doc), frame)

\* the scan of document d ended with an exception of addError
WalkThrew(d) ==
  \E i \in 1 .. Len(addErrorLog) :
    addErrorLog[i].error.doc = d /\ Threw(addErrorLog[i])

\* every frame of document d was pushed, and so were the frames of the
\* documents of these frames that were scanned to their end
RECURSIVE AllFramesEntered(_)
AllFramesEntered(d) ==
  \A k \in 1 .. Len(FramesOf(d)) :
    LET frame == FramesOf(d)[k]
        inner == getFrameContentDocument(frame)
    IN  /\ Entered(ChainOf(d), frame)
        /\ inner # 0 /\ ~WalkThrew(inner) => AllFramesEntered(inner)

C17_Step ==
  /\ pc = "pushed" /\ getFrameContentDocument(CurrentFrame) = 0 =>
       /\ errors_' = errors_
       /\ pc' = "popping"
       /\ scanStack' = scanStack
  /\ (\E d \in 1 .. Len(page) : \E k \in 1 .. Len(FramesOf(d)) :
        Skipped(FramesOf(d)[k])) => pc' # "failed"
  /\ pc' = "returned" => AllFramesEntered(1)'

\* C17: the step at a frame whose document cannot be accessed keeps the
\* errors and goes on with the loop over the frames; once a frame was
\* skipped the scan does not end with an exception; and when scan returns
\* every frame of the first document, and of every frame document scanned
\* to its end, was pushed.
C17_InaccessibleFrameSkipped == [][C17_Step]_vars

\* the first frame of the page was skipped, the second one was scanned and
\* gave errors after a first error before the skip, and scan returned
C17_Witness ==
  /\ pc = "returned"
  /\ Skipped(FramesOf(1)[1])
  /\ getFrameContentDocument(FramesOf(1)[2]) # 0
  /\ Len(errors_) >= 2
  /\ errors_[1].doc = 1
  /\ errors_[Len(errors_)].doc = getFrameContentDocument(FramesOf(1)[2])

\* the frame events are nested: every EnterFrame has its ExitFrame, with
\* the same frames, and between them the frames stay on the stack
FrameEventsNested ==
  \A i \in 1 .. Len(frameEvents) : frameEvents[i].type = "EnterFrame" =>
    \E j \in i + 1 .. Len(frameEvents) :
      /\ frameEvents[j].type = "ExitFrame"
      /\ frameEvents[j].frames = frameEvents[i].frames
      /\ \A k \in i + 1 .. j - 1 :
           /\ Len(frameEvents[k].frames) > Len(frameEvents[i].frames)
           /\ SubSeq(frameEvents[k].frames, 1, Len(frameEvents[i].frames))
                = frameEvents[i].frames

\* C18: at every addError call the location elements are the chain of
\* frames down to the scanned document followed by the element of the
\* error; the frame stack is that chain while a document is scanned, with
\* the frame on top between its push and its pop (also when it cannot be
\* accessed), and is empty for the first document and when scan is over,
\* when every pushed frame has been popped.
C18_FrameStackDiscipline ==
  /\ \A i \in 1 .. Len(addErrorLog) :
       LET error == addErrorLog[i].error
       IN  addErrorLog[i].locationElements =
             ChainOf(error.doc) \o
               (IF error.locationElement # 0
                THEN <<ElementOf(error.doc, error.locationElement)>>
                ELSE <<>>)
  /\ pc \in {"walking", "done", "thrown"} => frameStack_ = ChainOf(doc_)
  /\ pc \in {"walking", "done"} /\ scanStack = <<>> => frameStack_ = <<>>
  /\ pc = "looping" => frameStack_ = ChainOf(TopActivation.doc)
  /\ pc \in {"pushed", "popping"} =>
       frameStack_ = Append(ChainOf(TopActivation.doc), CurrentFrame)
  /\ pc \in {"returned", "failed"} => frameStack_ = <<>>
  /\ pc = "returned" => FrameEventsNested

\* scan has returned with an error of a document two frames down, after a
\* frame that cannot be accessed was pushed and popped
C18_Witness ==
  /\ pc = "returned"
  /\ \E i \in 1 .. Len(addErrorLog) :
       Len(addErrorLog[i].locationElements) = 3
  /\ \E k \in 1 .. Len(FramesOf(1)) : Skipped(FramesOf(1)[k])
  /\ frameStack_ = <<>>

----------------------------------------------------------------------------
(* Properties of one pass: its end, its listeners, the overall direction   *)

EndOfDoms == {i \in EventIndexes : events[i].type = "EndOfDom"}

\* the walker reaches node n: no element from the root down to n is left
\* out as not displayable
Reached(n) ==
  \A a \in Nodes : (a = n \/ IsAncestor(a, n)) => ~NotDisplayable(a)

\* every event of the subtree has been dispatched
AllTagEventsDispatched ==
  \A n \in Nodes : Reached(n) =>
    /\ dom[n].nodeType = "ELEMENT" => StartsOf(n) # {} /\ EndsOf(n) # {}
    /\ dom[n].nodeType = "TEXT" =>
         \E k \in EventIndexes :
           events[k].type = "TextNode" /\ events[k].node = n

C21_AtMostOnceAndLast ==
  /\ Cardinality(EndOfDoms) <= 1
  /\ \A i \in EndOfDoms : i = Len(events) /\ AllTagEventsDispatched
  /\ pc = "done" <=> EndOfDoms # {}

\* C21: a call of go dispatches END_OF_DOM (it does so in the end), never
\* twice, as the last event and only once the START_TAG and END_TAG events
\* of every element and the TEXT_NODE event of every text node that the
\* walk reaches have been dispatched.
C21_EndOfDomExactlyOnce == []C21_AtMostOnceAndLast /\ <>(EndOfDoms # {})

\* END_OF_DOM has been dispatched after the events of a text inside an
\* element below the root, and of an element after a skipped one
C21_Witness ==
  /\ EndOfDoms # {}
  /\ \E n \in Nodes : dom[n].nodeType = "TEXT" /\ dom[n].depth = 2 /\ Reached(n)
  /\ \E n, m \in Nodes : n < m /\ NotDisplayable(n) /\ Reached(m) /\ m # 1

----------------------------------------------------------------------------
(* Properties of the listeners and of the OverallDirectionalityDetector *)

\* the listeners of the pass over the document that are subscribed
ListenersOf(pass) == {l \in listeners_ : l.pass = pass}

\* C22: once go has returned, END_OF_DOM and END_OF_CHUNKS dispatched, no
\* listener that the DirChunkWalker or a detector added for the pass is
\* subscribed any more.
C22_NoListenerAfterPass ==
  pc = "done" => ListenersOf(doc_) = {}

IsOverall(error) ==
  error.type \in {"Overall directionality not RTL",
                  "Overall directionality not LTR"}

\* the errors of the OverallDirectionalityDetector in document d
OverallErrorsOf(d) ==
  {i \in 1 .. Len(errors_) : IsOverall(errors_[i]) /\ errors_[i].doc = d}

\* the root element of the pass has not the direction expected
RootMismatch ==
  expectedDir_ # "UNKNOWN" /\ (expectedDir_ = "RTL") # dom[1].rtl

\* C23: during and after the pass over a document, no listener of the
\* OverallDirectionalityDetector exists when the expected direction is
\* UNKNOWN; once the START_TAG event of the root has been dispatched and the
\* direction of the root is not the expected one, the collector holds exactly
\* one error of the detector for the document: of severity 1, of the type
\* that names the expected direction, at the root, without atText, added at
\* that first event; in every other case it holds none.
C23_OverallDirectionality ==
  pc \in {"walking", "done", "thrown"} =>
    /\ expectedDir_ = "UNKNOWN" =>
         \A l \in ListenersOf(doc_) :
           l.owner # "OverallDirectionalityDetector"
    /\ IF RootMismatch /\ events # <<>> /\ events[1].type = "StartTag"
       THEN \E i \in 1 .. Len(errors_) :
              /\ OverallErrorsOf(doc_) = {i}
              /\ errors_[i].type =
                   (IF expectedDir_ = "RTL"
                    THEN "Overall directionality not RTL"
                    ELSE "Overall directionality not LTR")
              /\ errors_[i].severity = 1
              /\ errors_[i].atText = NullText
              /\ errors_[i].highlightableArea = [element |-> 1]
              /\ errors_[i].atEvent = 1
       ELSE OverallErrorsOf(doc_) = {}

\* the pass over the document of a FRAME has gone beyond its root, whose
\* direction is not the expected one
C23_Witness ==
  /\ pc = "done"
  /\ doc_ = 2
  /\ RootMismatch
  /\ Len(events) > 2
  /\ OverallErrorsOf(1) = {}
  /\ OverallErrorsOf(2) # {}

----------------------------------------------------------------------------
(* Properties of the UndeclaredFieldDetector *)

FieldTypes ==
  {"alt text", "button label", "input value", "textarea value", "title text"}

FieldErrorType(direction, fieldType) ==
  "Undeclared " \o direction \o " " \o fieldType

IsFieldError(error) ==
  \/ error.type = "File input not LTR"
  \/ \E direction \in {"LTR", "RTL"} : \E fieldType \in FieldTypes :
       error.type = FieldErrorType(direction, fieldType)

\* the errors of the detector at element e
FieldErrorsAt(e) ==
  {i \in 1 .. Len(errors_) :
     IsFieldError(errors_[i]) /\ errors_[i].locationElement = e}

\* the START_TAG event of element e has been dispatched
Started(e) ==
  \E k \in 1 .. Len(events) :
    events[k].type = "StartTag" /\ events[k].node = e

\* the attributes of element e that the detector checks, with their values
CheckedFields(e) ==
  LET a == dom[e].attributes
      n == dom[e].nodeName
  IN  (IF a.title # <<>> THEN {<<"title text", a.title>>} ELSE {})
      \cup (IF n = "INPUT" /\ a.type \in {"text", "search"}
            THEN {<<"input value", a.value>>} ELSE {})
      \cup (IF n = "INPUT" /\ a.type \in {"button", "reset", "submit"}
            THEN {<<"button label", a.value>>} ELSE {})
      \cup (IF n = "IMG" \/ (n = "INPUT" /\ a.type = "image")
            THEN {<<"alt text", a.alt>>} ELSE {})
      \cup (IF n = "TEXTAREA" THEN {<<"textarea value", a.value>>} ELSE {})

\* an LTR run of the value is enclosed by RLO and PDF: it is shown as RTL
IsOverridden(str, s, e) ==
  charAt(str, s - 2) = "RLO" /\ charAt(str, e) = "PDF"

HasStrongLtr(str) ==
  \E s \in 1 .. Len(str) : \E e \in s .. Len(str) :
    IsRun(str, s, e, ltrChars_, rtlChars_) /\ ~IsOverridden(str, s, e)

HasStrongRtl(str) ==
  \/ \E q \in 1 .. Len(str) : str[q] \in rtlChars_
  \/ \E s \in 1 .. Len(str) : \E e \in s .. Len(str) :
       IsRun(str, s, e, ltrChars_, rtlChars_) /\ IsOverridden(str, s, e)

\* the value has strong text of one direction only, the other one than the
\* direction of the element
OnlyOppositeText(str, isRtlElement) ==
  IF isRtlElement THEN HasStrongLtr(str) /\ ~HasStrongRtl(str)
  ELSE HasStrongRtl(str) /\ ~HasStrongLtr(str)

\* C24: once the START_TAG event of an element has been dispatched, the
\* collector holds one error of the UndeclaredFieldDetector for each checked
\* attribute of the element whose value has strong text of one direction
\* only, the one opposite to the computed direction of the element, of the
\* type that names this direction and the field, with the value as atText,
\* and one error 'File input not LTR' of severity 2 for an INPUT of type
\* file whose computed direction is RTL, whatever its value; and no other
\* error of the detector.
C24_FieldReported ==
  \A e \in Nodes :
    LET file == dom[e].nodeName = "INPUT" /\ dom[e].attributes.type = "file"
        reported == {f \in CheckedFields(e) :
                       OnlyOppositeText(f[2], dom[e].rtl)}
        expected ==
          IF ~Started(e) THEN {}
          ELSE {<<FieldErrorType(IF dom[e].rtl THEN "LTR" ELSE "RTL", f[1]),
                  f[2]>> : f \in reported}
               \cup (IF file /\ dom[e].rtl
                     THEN {<<"File input not LTR", NullText>>} ELSE {})
    IN  /\ {<<errors_[i].type, errors_[i].atText>> : i \in FieldErrorsAt(e)}
             = expected
        /\ Cardinality(FieldErrorsAt(e)) = Cardinality(expected)
        /\ \A i \in FieldErrorsAt(e) :
             errors_[i].type = "File input not LTR"
               => errors_[i].severity = 2

\* the walk has passed an LTR button with an RTL title and a label of both
\* directions, one of them a run enclosed by RLO and PDF: one error
C24_Witness ==
  /\ pc = "done"
  /\ ~dom[2].rtl
  /\ HasStrongRtl(dom[2].attributes.title)
  /\ HasStrongLtr(dom[2].attributes.value)
  /\ HasStrongRtl(dom[2].attributes.value)
  /\ dom[2].attributes.value[1] = "RLO"
  /\ Cardinality(FieldErrorsAt(2)) = 1

FieldTypeOf(error) ==
  CHOOSE fieldType \in FieldTypes :
    \E direction \in {"LTR", "RTL"} :
      error.type = FieldErrorType(direction, fieldType)

\* the value starts or ends with a run of neutrals that holds a visible one
StartsOrEndsWithVisibleNeutral(str) ==
  \E q \in 1 .. Len(str) :
    /\ str[q] \in nonWhiteNeutralChars_
    /\ \/ \A j \in 1 .. (q - 1) : str[j] \in neutralChars_
       \/ \A j \in (q + 1) .. Len(str) : str[j] \in neutralChars_

----------------------------------------------------------------------------
(* Properties of the filters                                               *)

\* what the bare filter says of an error: severityFrom(n) of the errors of
\* severity n and above, type(t) of the errors of type t, and, or and not
\* the conjunction, the disjunction and the negation
RECURSIVE Suppresses(_, _)
Suppresses(bare, error) ==
  LET of(field) == Suppresses(bare.fields[field], error)
      opcode == bare.fields.opcode.string
  IN  CASE opcode = "SEVERITY" ->
             error.severity >= bare.fields.severityThreshold.number
        [] opcode = "TYPE" -> error.type = bare.fields.type.string
        [] opcode = "AND" -> of("filter1") /\ of("filter2")
        [] opcode = "OR" -> of("filter1") \/ of("filter2")
        [] opcode = "NOT" -> ~of("filter")

\* and(type(X), severityFrom(3)), for X the undeclared title text
TitleFromThree ==
  BareFilter("AND", [filter1 |-> BareType(TitleError),
                     filter2 |-> BareSeverity(3)])

\* C26: an error is suppressed exactly when one of the filters says so, by
\* the meaning of severityFrom, type, and, or and not; every other error is
\* in the result.  Under and(type(X), severityFrom(3)) alone the suppressed
\* errors are the errors of type X of severity 3 or 4.
C26_FilterEvaluation ==
  pc \in {"walking", "done"} =>
    /\ \A i \in 1 .. Len(addErrorLog) :
         LET call == addErrorLog[i]
             suppressed ==
               \E k \in 1 .. Len(opt_filtersJson.list) :
                 Suppresses(opt_filtersJson.list[k], call.error)
         IN  /\ call.outcome = (IF suppressed THEN "suppressed" ELSE "accepted")
             /\ opt_filtersJson.list = <<TitleFromThree>> =>
                  suppressed = (/\ call.error.type = TitleError
                                /\ call.error.severity \in {3, 4})
    /\ Len(errors_)
         = Cardinality({i \in 1 .. Len(addErrorLog) :
                          addErrorLog[i].outcome = "accepted"})

\* under and(type(X), severityFrom(3)) an error of type X of severity 3 was
\* suppressed, one of type X of severity 2 and one of another type of
\* severity 3 are in the result
C26_Witness ==
  /\ pc = "done"
  /\ opt_filtersJson.list = <<TitleFromThree>>
  /\ \E i \in 1 .. Len(addErrorLog) :
       /\ addErrorLog[i].outcome = "suppressed"
       /\ addErrorLog[i].error.severity = 3
  /\ \E r \in 1 .. Len(errors_) :
       errors_[r].type = TitleError /\ errors_[r].severity = 2
  /\ \E r \in 1 .. Len(errors_) :
       errors_[r].type = AltError /\ errors_[r].severity = 3

\* the bare filter has a known opcode and its required fields with their
\* types, and so have its sub-filters
RECURSIVE IsWellFormedFilter(_)
IsWellFormedFilter(bare) ==
  /\ bare.typeof = "object"
  /\ ~bare.isNull
  /\ "opcode" \in DOMAIN bare.fields
  /\ bare.fields.opcode.typeof = "string"
  /\ LET has(field, type) ==
           /\ field \in DOMAIN bare.fields
           /\ bare.fields[field].typeof = type
         sub(field) ==
           has(field, "object") /\ IsWellFormedFilter(bare.fields[field])
         opcode == bare.fields.opcode.string
     IN  CASE opcode = "SEVERITY" -> has("severityThreshold", "number")
           [] opcode = "TYPE" -> has("type", "string")
           [] opcode \in {"AND", "OR"} -> sub("filter1") /\ sub("filter2")
           [] opcode = "NOT" -> sub("filter")
           [] OTHER -> FALSE

\* C27: checkPageToJson raises the exception exactly when one of the bare
\* filters, or one of its sub-filters at any depth, is not well-formed; then
\* there is no list of filters and nothing was scanned.  Otherwise there is
\* one filter for each bare filter.
C27_MalformedFilterThrows ==
  pc # "reading" =>
    /\ pc = "raised"
         <=> \E k \in 1 .. Len(opt_filtersJson.list) :
               ~IsWellFormedFilter(opt_filtersJson.list[k])
    /\ pc = "raised" =>
         /\ filters_ = <<>>
         /\ listeners_ = {}
         /\ events = <<>>
         /\ addErrorLog = <<>>
    /\ pc # "raised" => Len(filters_) = Len(opt_filtersJson.list)

\* the exception was raised for a severity filter with a string threshold
\* two levels below the second filter of the list, after a good filter
C27_Witness ==
  /\ pc = "raised"
  /\ opt_filtersJson.list
       = <<BareType(AltError),
           BareFilter("AND",
             [filter1 |-> BareSeverity(3),
              filter2 |-> BareFilter("NOT",
                [filter |-> BareFilter("SEVERITY",
                   [severityThreshold |-> JString("3")])])])>>

----------------------------------------------------------------------------
(* Properties of bidichecker.Error                                          *)

\* the member of the record that gives the field, if it has one
MembersOf(record, field) ==
  {k \in DOMAIN record : record[k].name = field}

\* the record has no value for the field: no member, or the member null
Lacks(record, field) ==
  \A k \in MembersOf(record, field) : record[k].value.kind = "null"

\* C28: the errors rebuilt from the text that serialize made have the id,
\* type, severity, atText, locationDescription, precededByText and
\* followedByText of the serialized errors, and their toString() is the
\* asString of the record and the toString() of the serialized error;
\* rebuilding from a record without id, type or severity raises.
C28_SerializeRoundTrip ==
  rebuilt.done =>
    /\ rebuilt.throws
         <=> \E i \in DOMAIN errorsJson.text :
               \E field \in requiredFields : Lacks(errorsJson.text[i], field)
    /\ errorsJson.from = "serialize" =>
         /\ ~rebuilt.throws
         /\ Len(rebuilt.errors) = Len(errorsJson.of)
         /\ \A i \in DOMAIN rebuilt.errors :
              LET error == rebuilt.errors[i]
                  original == errorsJson.of[i].this
                  record == errorsJson.text[i]
              IN  /\ \A field \in errorFieldNames :
                       getField(error, field) = getField(original, field)
                  /\ toString(error) = toString(original)
                  /\ \E k \in MembersOf(record, "asString") :
                       parseValue(record[k].value) = toString(error)

\* an error with id 0, a text of more than AT_TEXT_TRUNCATION_LENGTH
\* characters and every other text set has been serialized and rebuilt
C28_Witness ==
  /\ rebuilt.done
  /\ errorsJson.from = "serialize"
  /\ \E i \in DOMAIN rebuilt.errors :
       LET error == rebuilt.errors[i]
       IN  /\ error["id"] = JNumber(0)
           /\ truthy(error["atText"])
           /\ Len(error["atText"].string) > AT_TEXT_TRUNCATION_LENGTH
           /\ \A field \in {"locationDescription", "precededByText",
                            "followedByText"} : truthy(error[field])

\* the errors made since the last call of clearHighlightableAreas
Current == {i \in DOMAIN errorObjects : ~errorObjects[i].cleared}

\* the errors made before it
Stale == {i \in DOMAIN errorObjects : errorObjects[i].cleared}

DistinctIds ==
  \A i, k \in Current :
    i # k => errorObjects[i].this["id"] # errorObjects[k].this["id"]

CurrentHaveTheirArea ==
  \A i \in Current :
    errorGetHighlightableArea(errorObjects[i].this) = errorObjects[i].area

\* C30: the errors made since the last clearHighlightableAreas() have
\* pairwise distinct ids and getHighlightableArea() gives each the area it
\* was made with; for every error made before that call it gives null, also
\* once new errors have been made.
C30_AreasOfCurrentErrorsOnly ==
  /\ DistinctIds
  /\ CurrentHaveTheirArea
  /\ \A i \in Stale :
       errorGetHighlightableArea(errorObjects[i].this) = JNull

\* right after clearHighlightableAreas() no error has an area
C30_NoAreaAfterClear ==
  [][clearHighlightableAreas =>
       \A i \in DOMAIN errorObjects :
         errorGetHighlightableArea(errorObjects[i].this)' = JNull]_vars

----------------------------------------------------------------------------
(* Properties of the highlightable areas                                   *)

\* what the claim calls the page: the background colour of the element in
\* effect, and the child nodes
Page(style, nodes) ==
  [backgroundColor |-> getBackgroundColor(style), nodes |-> nodes]

Last(sequence) == sequence[Len(sequence)]

\* the step is a call after a call of the same function
Repeats == calls # <<>> /\ calls' # calls /\ Last(calls') = Last(calls)

\* the step is a call of unhighlightOnPage after a call of highlightOnPage,
\* which may be any number of calls back
Unhighlights ==
  /\ calls' # calls
  /\ Last(calls') = "unhighlightOnPage"
  /\ \E k \in DOMAIN calls : calls[k] = "highlightOnPage"

Reversible ==
  Unhighlights =>
    Page(elementStyle, pageNodes)' = Page(loaded.elementStyle, loaded.pageNodes)

Idempotent ==
  Repeats => Page(elementStyle, pageNodes)' = Page(elementStyle, pageNodes)

\* C29: for both kinds of area, unhighlightOnPage after highlightOnPage
\* calls puts the page back as it was loaded, and a call of highlightOnPage
\* or unhighlightOnPage that repeats the call before it leaves the page as
\* it is.
C29_ReversibleIdempotent == [][Reversible /\ Idempotent]_vars

\* the same of the HighlightableText alone
C29_TextReversibleIdempotent ==
  [][area.kind = "text" => Reversible /\ Idempotent]_vars

\* the same of the HighlightableElement, for an unhighlightOnPage that
\* follows a highlightOnPage which no highlightOnPage precedes directly
C29_ElementReversibleOnce ==
  [][(/\ area.kind = "element"
      /\ ~\E k \in 1 .. (Len(calls) - 1) :
            calls[k] = "highlightOnPage" /\ calls[k + 1] = "highlightOnPage")
       => Reversible /\ Idempotent]_vars

----------------------------------------------------------------------------
(* Properties of the substring finders *)

\* what the finder of the latest call returns when its pattern is fresh
FreshResults == execLoop(finderCall.finder, finderCall.str, 0).results

\* C31: the substring finders are pure.  After any sequence of calls on any
\* strings every global regular expression is back at lastIndex 0, so that
\* a call returns what a call with a fresh pattern returns: calling a
\* finder again on the same string gives an identical list.
C31_FindersPure ==
  /\ \A reg \in GlobalRegs : regLastIndex[reg] = 0
  /\ finderCall.finder # "none" => finderCall.results = FreshResults

\* findLtrSubstrings has skipped a fake RTL match and has gone on to a match
\* that it returned
C31_Witness ==
  /\ finderCall.finder = "findLtrSubstrings"
  /\ finderCall.str = <<"a", "RLO", "a", "PDF", "PDF", "RLO", "a", "alef", "PDF">>
  /\ Len(finderCall.results) = 2

\* the strong characters of the class a finder looks for, and of the other
OwnChars == IF finderCall.finder = "findLtrSubstrings" THEN ltrChars_ ELSE rtlChars_

OtherChars == IF finderCall.finder = "findLtrSubstrings" THEN rtlChars_ ELSE ltrChars_

\* the positions (from 1) of the first and the last character of a match
FirstOf(match) == match.index + 1

LastOf(match) == match.index + Len(match.text)

\* the run of position k (from 1) lies between an RLO and a PDF
InFakeRtl(k) ==
  \E first \in 1 .. k, last \in k .. Len(finderCall.str) :
    /\ \A q \in first .. last :
         finderCall.str[q] \notin OtherChars \cup bidiControlChars
    /\ charAt(finderCall.str, first - 2) = "RLO"
    /\ charAt(finderCall.str, last) = "PDF"

\* C32: findLtrSubstrings and findRtlSubstrings return matches in increasing
\* index order that do not overlap.  Each match is a part of the string that
\* starts and ends with a strong character of its own class and contains
\* no strong character of the other class and no embedding or override
\* control; it is maximal: a later strong character of its own class is
\* beyond an excluded character.  A single strong character is a match:
\* every strong character of the class is in a match, except for
\* findLtrSubstrings the runs between RLO and PDF.
C32_MaximalRuns ==
  finderCall.finder \in {"findLtrSubstrings", "findRtlSubstrings"} =>
    LET str == finderCall.str
        results == finderCall.results
        excluded == OtherChars \cup bidiControlChars
    IN  /\ \A i \in 1 .. (Len(results) - 1) :
             LastOf(results[i]) < FirstOf(results[i + 1])
        /\ \A i \in 1 .. Len(results) :
             /\ Len(results[i].text) >= 1
             /\ LastOf(results[i]) <= Len(str)
             /\ results[i].text =
                  SubSeq(str, FirstOf(results[i]), LastOf(results[i]))
             /\ str[FirstOf(results[i])] \in OwnChars
             /\ str[LastOf(results[i])] \in OwnChars
             /\ \A q \in FirstOf(results[i]) .. LastOf(results[i]) :
                  str[q] \notin excluded
             /\ \A k \in (LastOf(results[i]) + 1) .. Len(str) :
                  str[k] \in OwnChars =>
                    \E q \in (LastOf(results[i]) + 1) .. (k - 1) :
                      str[q] \in excluded
        /\ \A k \in 1 .. Len(str) :
             str[k] \in OwnChars =>
               \/ \E i \in 1 .. Len(results) :
                    k \in FirstOf(results[i]) .. LastOf(results[i])
               \/ finderCall.finder = "findLtrSubstrings" /\ InFakeRtl(k)

\* findLtrSubstrings has returned three matches, the last of them a single
\* strong character
C32_Witness ==
  /\ finderCall.finder = "findLtrSubstrings"
  /\ finderCall.str =
       <<"LRM", "!", "LRM", "alef", "a", " ", "a", "RLM", "1", " ", "a">>
  /\ Len(finderCall.results) = 3
  /\ finderCall.results[3] = Substring(<<"a">>, 10)

----------------------------------------------------------------------------
(* Properties of the walker's stacks at the events *)

\* what a listener reads from the walker during an event
StackView(event) ==
  <<event.inRtl, event.parentInRtl, event.inDeclaredDir, event.currentBlock>>

\* C33: at the END_TAG event of an element inRtl(), parentInRtl(),
\* inDeclaredDir() and getCurrentBlock() return what they returned at the
\* START_TAG event of that element.
C33_EndTagSeesStartTagState ==
  \A e \in Nodes : \A i \in StartsOf(e), j \in EndsOf(e) :
    StackView(events[j]) = StackView(events[i])

\* an element was ended after a block-level child and an inline child of it
\* were started and ended
C33_Witness ==
  \E e, b, c \in Nodes :
    /\ EndsOf(e) # {}
    /\ parentNode(b) = e /\ parentNode(c) = e
    /\ EndsOf(b) # {} /\ EndsOf(c) # {}
    /\ isBlockElement(b) /\ ~isFrame(b)
    /\ ~isBlockElement(c)
    /\ \E i \in StartsOf(e) : events[i].currentBlock # b

----------------------------------------------------------------------------
(* Properties of the spillover errors *)

\* the text nodes of the TEXT_NODE events after event j up to event k
TextNodesBetween(j, k) ==
  LET seen == SelectSeq(SubSeq(events, j + 1, k),
                        LAMBDA ev : ev.type = "TextNode")
  IN  [i \in 1 .. Len(seen) |-> seen[i].node]

\* the data of the nodes but the last, and of the last up to position cut
DataCutAt(nodes, cut) ==
  Concat([i \in 1 .. Len(nodes) |->
            IF i < Len(nodes) THEN dom[nodes[i]].data
            ELSE SubSeq(dom[nodes[i]].data, 1, cut)])

\* the end of the leading number of the data: the last digit that only
\* neutrals (digits among them) precede
NumberEnd(data) ==
  LET ends == {i \in 1 .. Len(data) :
                 /\ data[i] \in digitChars
                 /\ \A j \in 1 .. (i - 1) : data[j] \in neutralChars_}
  IN  CHOOSE i \in ends : \A j \in ends : j <= i

\* C34: for every spillover error, atText is the concatenation of the data
\* of all text nodes seen since the candidate closed, cut right after the
\* leading number of the last node; precededByText is the full text content
\* of the candidate element; the highlighted nodes are exactly those text
\* nodes, up to the end of the number; and no candidate has two errors.
C34_SpilloverErrorFields ==
  /\ \A r \in 1 .. Len(errors_) : IsSpillover(errors_[r]) =>
       LET error == errors_[r]
           k == error.atEvent
           seen(j) == TextNodesBetween(j, k)
           cut == NumberEnd(dom[events[k].node].data)
       IN  /\ EndsOf(error.candidate) # {}
           /\ \A j \in EndsOf(error.candidate) :
                /\ j < k
                /\ seen(j) # <<>>
                /\ error.atText = DataCutAt(seen(j), cut)
                /\ error.highlightableArea =
                     [nodes |-> seen(j), startOffset |-> 0, endOffset |-> cut]
           /\ error.precededByText = getTextContents(error.candidate)
  /\ \A r, q \in 1 .. Len(errors_) :
       (/\ IsSpillover(errors_[r]) /\ IsSpillover(errors_[q])
        /\ errors_[r].candidate = errors_[q].candidate) => r = q

\* an error was reported over two text nodes, the last of them cut between
\* its number and the letter that follows
C34_Witness ==
  /\ pc = "done"
  /\ \E r \in 1 .. Len(errors_) :
       /\ IsSpillover(errors_[r])
       /\ Len(errors_[r].highlightableArea.nodes) = 2
       /\ Len(errors_[r].atText) < Len(Concat([i \in 1 .. 2 |->
             dom[errors_[r].highlightableArea.nodes[i]].data]))

----------------------------------------------------------------------------
(* Properties of the highlightable area of a chunk *)

\* the characters that highlightOnPage puts into the highlighted spans of a
\* HighlightableText: of the first node from startOffset, of the last node up
\* to endOffset, of the nodes between them all
Covered(highlightableArea) ==
  LET nodes == highlightableArea.nodes
      span(i) ==
        highlightNodeText_(dom[nodes[i]],
          IF i = 1 THEN highlightableArea.startOffset ELSE 0,
          IF i = Len(nodes) THEN highlightableArea.endOffset
          ELSE Len(dom[nodes[i]].data))
      highlighted(node) ==
        SelectSeq(node.children, LAMBDA child : child.nodeType = "ELEMENT")
  IN  Concat([i \in 1 .. Len(nodes) |->
                highlighted(span(i))[1].children[1].data])

\* the area is the one the claim describes for the substring of the chunk
\* text from position start (from 0) of the given length
IsAreaOf(highlightableArea, chunk, start, length) ==
  LET nodes == highlightableArea.nodes
  IN  /\ nodes # <<>>
      /\ nodes[1] = HolderOf(chunk, start)
      /\ nodes[Len(nodes)] = HolderOf(chunk, start + length - 1)
      /\ \E a \in 1 .. Len(chunk.nodePositions_) :
           \A i \in 1 .. Len(nodes) :
             /\ a + i - 1 <= Len(chunk.nodePositions_)
             /\ nodes[i] = chunk.nodePositions_[a + i - 1].node
      /\ Covered(highlightableArea)
           = SubSeq(getText(chunk), start + 1, start + length)

\* C35: DirChunk.getHighlightableArea(start, length), for length >= 1 and
\* start + length within the text, returns the text nodes from the one that
\* holds character start through the one that holds character
\* start + length - 1, in order, with offsets such that the characters
\* covered are exactly the requested substring of the chunk text.
C35_AreaCoversSubstring ==
  \A r \in 1 .. Len(errors_) : IsUndeclaredText(errors_[r]) =>
    IsAreaOf(errors_[r].highlightableArea, chunks[errors_[r].chunk],
             errors_[r].index, Len(errors_[r].atText))

\* the same for the chunks without an empty text node
C35_WithoutEmptyNodes ==
  \A r \in 1 .. Len(errors_) :
    (/\ IsUndeclaredText(errors_[r])
     /\ \A i \in 1 .. Len(chunks[errors_[r].chunk].textPieces_) :
          chunks[errors_[r].chunk].textPieces_[i] # <<>>)
      => IsAreaOf(errors_[r].highlightableArea, chunks[errors_[r].chunk],
                  errors_[r].index, Len(errors_[r].atText))

----------------------------------------------------------------------------
(* Properties of the text that passes through the DirChunkWalker *)

\* the DIR_CHUNK events dispatched so far, in dispatch order
DirChunkEvents == SelectSeq(chunkEvents, LAMBDA e : e.type = "DirChunk")

\* the TEXT_NODE events dispatched so far, in event order
TextNodeEvents == SelectSeq(events, LAMBDA ev : ev.type = "TextNode")

\* the texts of the dispatched chunks, as their listeners read them
DispatchedText ==
  Concat([c \in 1 .. Len(DirChunkEvents) |-> getText(DirChunkEvents[c].seen)])

\* the data of the text nodes visited
VisitedText ==
  Concat([k \in 1 .. Len(TextNodeEvents) |-> dom[TextNodeEvents[k].node].data])

\* C36: the texts of the chunks dispatched in DIR_CHUNK events, concatenated
\* in dispatch order, are the data of the text nodes of the TEXT_NODE events
\* concatenated in event order: after a whole traversal the two are equal,
\* and during it the dispatched text is the visited text up to the start of
\* the chunk being filled.
C36_TextConserved ==
  /\ pc = "done" => DispatchedText = VisitedText
  /\ pc = "walking" =>
       /\ Len(DispatchedText) <= Len(VisitedText)
       /\ DispatchedText = SubSeq(VisitedText, 1, Len(DispatchedText))
       /\ (chunkEvents = <<>> \/ chunkEvents[Len(chunkEvents)].type # "EndOfChunks")
            => DispatchedText \o getText(chunks[chunk_]) = VisitedText

\* a finished traversal of three text nodes, one of them empty, whose chunk
\* was dispatched with the different texts of two nodes in it
C36_Witness ==
  /\ pc = "done"
  /\ Len(TextNodeEvents) >= 3
  /\ \E k \in 1 .. Len(TextNodeEvents) : dom[TextNodeEvents[k].node].data = <<>>
  /\ \E c \in 1 .. Len(DirChunkEvents) :
       LET pieces == DirChunkEvents[c].seen.textPieces_
       IN  \E i, j \in 1 .. Len(pieces) :
             i < j /\ pieces[i] # <<>> /\ pieces[j] # <<>> /\ pieces[i] # pieces[j]

----------------------------------------------------------------------------
(* Properties of the shared NullDirChunk *)

\* a text met with the NullDirChunk as the current chunk starts a new chunk
C39_TextStep ==
  (Dispatches("TextNode") /\ chunk_ = NullId) =>
    /\ chunk_' # NullId
    /\ NewChunkEvents = <<>>
    /\ chunks'[chunk_'].nodePositions_[1].node = events'[Len(events')].node

\* the NullDirChunk is as it was made and no DIR_CHUNK event carries it
C39_NullChunkKept ==
  /\ chunks[NullId] = NullDirChunk
  /\ getText(chunks[NullId]) = <<>>
  /\ Len(chunks[NullId].nodePositions_) = 1
  /\ \A c \in ChunkEventIndexes :
       chunkEvents[c].type = "DirChunk" => chunkEvents[c].chunk # NullId
  /\ \A k \in EventIndexes :
       events[k].type = "TextNode" => events[k].currentBlock # 0

\* C39: the shared NullDirChunk is never appended to and never dispatched
\* in a DIR_CHUNK event: the first TEXT_NODE event of every traversal finds
\* a current block and starts a new chunk, so in every document of a scan
\* the NullDirChunk has the empty text and one entry in its node index.
C39_NullDirChunkUntouched == [][C39_TextStep]_vars /\ []C39_NullChunkKept

\* the walk of a frame's document, begun with the NullDirChunk after the
\* walk of the first document dispatched a chunk, has filled a chunk of its
\* own
C39_Witness ==
  /\ doc_ > 1
  /\ errors_ # <<>>
  /\ chunk_ # NullId
  /\ ~isEmpty(chunks[chunk_])
  /\ chunks[NullId] = NullDirChunk

----------------------------------------------------------------------------
(* Properties of the order of a scan over the frames *)

\* document d comes before document e in the depth-first order of the
\* frames: d holds (a frame that holds ...) the frame of e, or the chains of
\* frames down to them part at two frames of one document, of which the one
\* of d is the earlier
ScannedBefore(d, e) ==
  LET p == ChainOf(d)
      q == ChainOf(e)
      common == {k \in 0 .. Len(p) : k <= Len(q) /\ SubSeq(p, 1, k) = SubSeq(q, 1, k)}
      k == CHOOSE k \in common : \A m \in common : m <= k
  IN  IF k = Len(p) THEN k < Len(q)
      ELSE k < Len(q) /\ p[k + 1].node < q[k + 1].node

\* the frames pushed right below the given chain, in the order of the pushes
EnteredBelow(chain) ==
  LET pushes == SelectSeq(frameEvents,
                  LAMBDA e : /\ e.type = "EnterFrame"
                             /\ Len(e.frames) = Len(chain) + 1
                             /\ SubSeq(e.frames, 1, Len(chain)) = chain)
  IN  [k \in 1 .. Len(pushes) |-> pushes[k].frames[Len(chain) + 1]]

\* the number of frames the loop of activation a has pushed
Pushed(a) ==
  IF a = Len(scanStack) /\ pc = "looping"
  THEN scanStack[a].i - 1 ELSE scanStack[a].i

\* the errors are in the depth-first order of their documents, and the
\* frames of a document are pushed in document order
C37_Order ==
  /\ \A i, j \in 1 .. Len(errors_) :
       i < j => \/ errors_[i].doc = errors_[j].doc
                \/ ScannedBefore(errors_[i].doc, errors_[j].doc)
  /\ \A a \in 1 .. Len(scanStack) :
       /\ Pushed(a) <= Len(FramesOf(scanStack[a].doc))
       /\ EnteredBelow(ChainOf(scanStack[a].doc))
            = SubSeq(FramesOf(scanStack[a].doc), 1, Pushed(a))

\* the step into the document of a frame: a new DomWalker, DirChunkWalker
\* and set of detectors, and the collector of the scan
C37_EnterStep ==
  (pc = "pushed" /\ pc' = "walking") =>
    /\ doc_' = getFrameContentDocument(CurrentFrame)
    /\ \A l \in listeners_ : l.pass # doc_'
    /\ {l \in listeners_' : l.pass = doc_'}
         = runDetectors_(doc_', expectedDir_', revision_)
    /\ nodeIter_' = NewTagIterator(1) /\ node_' = 0
    /\ isRtlStack_' = <<dom'[1].rtl>> /\ isDeclaredStack_' = <<>>
    /\ blockStack_' = <<1>> /\ frames_' = <<>> /\ events' = <<>>
    /\ chunk_' = NullId /\ chunkEvents' = <<>>
    /\ candidate_' = 0 /\ textNodes_' = <<>>
    /\ errors_' = errors_ /\ addErrorLog' = addErrorLog
    /\ filters_' = filters_ /\ throwOnError_' = throwOnError_

\* C37: the errors are collected depth-first and one document after the
\* other: in the list of the collector the errors of a document precede
\* those of the documents of its frames (and of every document scanned
\* later), the frames of a document are entered in the order in which its
\* walker recorded them, and every document is scanned with a new
\* DomWalker, DirChunkWalker and set of detectors that report to the one
\* ErrorCollector of the scan.
C37_DepthFirstSequential == [][C37_EnterStep]_vars /\ []C37_Order

\* scan has returned with errors of the first document, of the document of
\* its first frame, of a document of a frame of that one and of the document
\* of its second frame, in this order
C37_Witness ==
  /\ pc = "returned"
  /\ \E i, j, k, l \in 1 .. Len(errors_) :
       /\ i < j /\ j < k /\ k < l
       /\ errors_[i].doc = 1
       /\ errors_[j].doc = getFrameContentDocument(FramesOf(1)[1])
       /\ Len(ChainOf(errors_[k].doc)) = 2
       /\ errors_[l].doc = getFrameContentDocument(FramesOf(1)[2])

----------------------------------------------------------------------------
(* Properties of the expected direction of the documents of frames *)

\* frame.tagName == 'IFRAME'
IsIframe(frame) == page[frame.doc].dom[frame.node].nodeName = "IFRAME"

\* the step into the document of a frame builds the detectors for UNKNOWN
\* or for the direction with which the frame's document was scanned
C38_EnterStep ==
  (pc = "pushed" /\ pc' = "walking") =>
    /\ expectedDir_' = IF IsIframe(CurrentFrame) THEN "UNKNOWN"
                       ELSE TopActivation.scannedWith
    /\ {l \in listeners_' : l.pass = doc_'}
         = runDetectors_(doc_', IF IsIframe(CurrentFrame) THEN "UNKNOWN"
                                ELSE TopActivation.scannedWith, revision_)

\* C38: the document of an IFRAME is scanned with the expected direction
\* UNKNOWN, and the document of a FRAME with the expected direction with
\* which the document that holds the FRAME was scanned, whatever frames
\* come before it in that document.
C38_FrameExpectedDir == [][C38_EnterStep]_vars

\* a FRAME after no IFRAME whose document was entered gets the expected
\* direction of its document, and an IFRAME gets UNKNOWN
C38_BeforeAnyIframe ==
  [][(pc = "pushed" /\ pc' = "walking") =>
       /\ IsIframe(CurrentFrame) => expectedDir_' = "UNKNOWN"
       /\ (\A k \in 1 .. TopActivation.i :
             LET frame == ElementOf(TopActivation.doc, TopActivation.newFrames[k])
             IN  IsIframe(frame) => getFrameContentDocument(frame) = 0)
            => expectedDir_' = TopActivation.scannedWith]_vars

----------------------------------------------------------------------------
(* Properties of the asString field of an Error *)

\* C40: in every state between two calls (Error.serialize runs in one step)
\* the asString field of every Error object is null.
C40_AsStringNullOutsideSerialize ==
  \A i \in DOMAIN errorObjects :
    getField(errorObjects[i].this, "asString") = JNull

\* asString is null until the error is serialized, and from then on it is
\* the toString() of the error at the call of serialize
C40_AsStringKeptAfterSerialize ==
  \A i \in DOMAIN errorObjects :
    IF errorsJson.from = "serialize"
    THEN getField(errorObjects[i].this, "asString")
           = toString([f \in DOMAIN errorObjects[i].this \ {"asString"} |->
                         errorObjects[i].this[f]])
    ELSE getField(errorObjects[i].this, "asString") = JNull
====
